---- MODULE Spec2Model ----
(***************************************************************************)
(* Flat-tree engine of the JSON/XML viewer: the tree builders (main        *)
(* thread jsonParser, public/worker.js, xmlParser), the visibility         *)
(* resolver, the mutation operators and the search engine.                 *)
(*                                                                         *)
(* Encoding.  A JavaScript string is a sequence of one-character strings.  *)
(* A node id `node_<i>` is the natural number i; an absent parent, index   *)
(* or childCount (undefined) is -1; an absent key is the sequence Undef.   *)
(* A node's value is a record tagged by the JavaScript type it holds.      *)
(***************************************************************************)
EXTENDS Integers, Sequences, FiniteSets, TLC

VARIABLES input, nodes, prev, op, matches, nodeIdCounter, xmlNodeIdCounter,
          error, requests, handled, outbox, app, history

vars == <<input, nodes, prev, op, matches, nodeIdCounter, xmlNodeIdCounter,
          error, requests, handled, outbox, app, history>>

\* The state of the worker and of the last ParseResult's error.
workerVars == <<error, requests, handled, outbox>>

\* The state of the tab manager and the orchestration layer, and the history store.
appVars == <<app, history>>

-----------------------------------------------------------------------------
(* Bounds of the model. *)

\* Largest number of JSON values or DOM nodes in a document handed to a builder.
MaxNodes == 4

\* Largest number of JSON values or DOM nodes in a document whose node list the
\* mutation operators are applied to.
MaxOpNodes == 4

-----------------------------------------------------------------------------
(* Strings. *)

NoId == -1

Undef == <<"undefined">>

\* JavaScript truthiness of an optional string: undefined and '' are falsy.
Truthy(s) == s # Undef /\ s # <<>>

Digit(d) == <<"0", "1", "2", "3", "4", "5", "6", "7", "8", "9">>[d + 1]

RECURSIVE NatToString(_)
\* String(n) / `${n}` for a non-negative integer n.
NatToString(n) == IF n < 10 THEN <<Digit(n)>>
                  ELSE NatToString(n \div 10) \o <<Digit(n % 10)>>

\* The letters that occur in the strings of the model.
LowerChars == <<"a", "e", "l", "n", "o", "r", "t", "u", "x">>
UpperChars == <<"A", "E", "L", "N", "O", "R", "T", "U", "X">>

ToLowerChar(c) == IF \E i \in 1..Len(UpperChars) : UpperChars[i] = c
                  THEN LowerChars[CHOOSE i \in 1..Len(UpperChars) : UpperChars[i] = c]
                  ELSE c

ToUpperChar(c) == IF \E i \in 1..Len(LowerChars) : LowerChars[i] = c
                  THEN UpperChars[CHOOSE i \in 1..Len(LowerChars) : LowerChars[i] = c]
                  ELSE c

toLowerCase(s) == [i \in 1..Len(s) |-> ToLowerChar(s[i])]

toUpperCase(s) == [i \in 1..Len(s) |-> ToUpperChar(s[i])]

WhiteSpace == {" ", "\t", "\n"}

RECURSIVE trimStart(_)
trimStart(s) == IF s # <<>> /\ Head(s) \in WhiteSpace THEN trimStart(Tail(s)) ELSE s

RECURSIVE trimEnd(_)
trimEnd(s) == IF s # <<>> /\ s[Len(s)] \in WhiteSpace
              THEN trimEnd(SubSeq(s, 1, Len(s) - 1)) ELSE s

trim(s) == trimEnd(trimStart(s))

\* s.includes(q)
includes(s, q) == \E i \in 1..(Len(s) - Len(q) + 1) : \A j \in 1..Len(q) : s[i + j - 1] = q[j]

RECURSIVE split(_, _)
\* s.split(sep) for a one-character separator: always at least one part.
split(s, sep) ==
  IF \A i \in 1..Len(s) : s[i] # sep THEN <<s>>
  ELSE LET i == CHOOSE j \in 1..Len(s) : s[j] = sep /\ \A k \in 1..(j - 1) : s[k] # sep
       IN <<SubSeq(s, 1, i - 1)>> \o split(SubSeq(s, i + 1, Len(s)), sep)

RECURSIVE join(_, _)
\* parts.join(sep)
join(parts, sep) ==
  IF parts = <<>> THEN <<>>
  ELSE IF Len(parts) = 1 THEN parts[1]
  ELSE parts[1] \o <<sep>> \o join(Tail(parts), sep)

-----------------------------------------------------------------------------
(* JSON values, as JSON.parse returns them. *)

JNull == [type |-> "null"]
JStr(s) == [type |-> "string", str |-> s]
\* A number: mant * 10^exp, mant a positive integer without a trailing zero
\* unless exp = 0.
Num(mant, exp) == [mant |-> mant, exp |-> exp]

\* String(number): the decimal digits while the number has at most 21 of them,
\* the exponent form (1e+21, 1.2e+22) above.
NumberToString(x) ==
  LET ds == NatToString(x.mant)
      n == Len(ds) + x.exp
  IN IF n <= 21 THEN ds \o [i \in 1..x.exp |-> "0"]
     ELSE (IF Len(ds) = 1 THEN ds ELSE <<Head(ds), ".">> \o Tail(ds))
            \o <<"e", "+">> \o NatToString(n - 1)

\* n: a Num.
JNum(n) == [type |-> "number", num |-> n]
JBool(b) == [type |-> "boolean", bool |-> b]
JArr(items) == [type |-> "array", items |-> items]
\* props: the sequence of <<key, value>> in Object.keys order.
JObj(props) == [type |-> "object", props |-> props]

Scalars == {JNull, JStr(<<"x">>), JNum(Num(1, 0)), JBool(TRUE)}

\* Property names of the input documents: a plain key, a key that contains
\* the path separator, and the empty key.
Keys == {<<"a">>, <<"a", ".", "a">>, <<>>}

KeyRank(k) == CASE k = <<"a">> -> 1
                [] k = <<"a", ".", "a">> -> 2
                [] OTHER -> 3

RECURSIVE JValues(_, _, _, _)
RECURSIVE JItems(_, _, _, _)
RECURSIVE JProps(_, _, _, _, _)

\* Sequences of values with exactly m nodes in total.
JItems(m, ks, sc, ord) ==
  IF m = 0 THEN {<<>>}
  ELSE UNION {{<<v>> \o rest : v \in JValues(j, ks, sc, ord), rest \in JItems(m - j, ks, sc, ord)}
              : j \in 1..m}

\* Sequences of <<key, value>> with pairwise distinct keys from left and exactly
\* m nodes in total; when ord, the keys appear in KeyRank order.
JProps(m, left, ks, sc, ord) ==
  IF m = 0 THEN {<<>>}
  ELSE UNION {{<< <<k, v>> >> \o rest :
                 v \in JValues(j, ks, sc, ord),
                 rest \in JProps(m - j,
                                 IF ord THEN {k2 \in left : KeyRank(k2) > KeyRank(k)}
                                 ELSE left \ {k},
                                 ks, sc, ord)}
              : <<k, j>> \in left \X (1..m)}

\* JSON values with exactly n nodes, property names from ks, scalars from sc.
JValues(n, ks, sc, ord) ==
  (IF n = 1 THEN sc ELSE {})
  \cup {JArr(items) : items \in JItems(n - 1, ks, sc, ord)}
  \cup {JObj(props) : props \in JProps(n - 1, ks, ks, sc, ord)}

\* The documents handed to the builders.
Docs == UNION {JValues(n, Keys, Scalars, FALSE) : n \in 1..MaxNodes}

\* The documents whose node lists the mutation operators are applied to.
OpKeys == {<<"a">>, <<"a", ".", "a">>}
OpScalars == {JStr(<<"x">>)}
OpDocs == UNION {JValues(n, OpKeys, OpScalars, TRUE) : n \in 1..MaxOpNodes}

-----------------------------------------------------------------------------
(* JSON.parse on texts of brackets, commas and the digit 1. *)

\* Every text of at most MaxTextLen characters is handed to JSON.parse.
MaxTextLen == 2

TextChars == {"[", "]", ",", "1"}

\* Longer texts: arrays with elements, a trailing comma, unbalanced brackets.
LongTexts == {<<"[", "1", "]">>, <<"[", "1", ",", "1", "]">>, <<"[", "1", ",", "]">>,
              <<"[", "]", "]">>, <<"[", "[", "]">>}

JsonTexts == UNION {[1..n -> TextChars] : n \in 0..MaxTextLen} \cup LongTexts

DigitChars == {Digit(d) : d \in 0..9}

RECURSIVE StringToNat(_)
\* The value of a sequence of digits.
StringToNat(ds) ==
  IF ds = <<>> THEN 0
  ELSE 10 * StringToNat(SubSeq(ds, 1, Len(ds) - 1))
       + (CHOOSE d \in 0..9 : Digit(d) = ds[Len(ds)])

\* The messages of the SyntaxError JSON.parse throws (V8 wording); never empty.
UnexpectedEnd == <<"U", "n", "e", "x", "p", "e", "c", "t", "e", "d", " ", "e", "n", "d">>
UnexpectedToken == <<"U", "n", "e", "x", "p", "e", "c", "t", "e", "d", " ", "t", "o", "k", "e", "n">>

Parsed(v, rest) == [ok |-> TRUE, value |-> v, rest |-> rest]
ParseFailed(rest) == [ok |-> FALSE, message |-> IF rest = <<>> THEN UnexpectedEnd ELSE UnexpectedToken]

RECURSIVE ParseValue(_)
RECURSIVE ParseElements(_, _)

\* One JSON value at the head of s: a number without a leading zero or an array.
ParseValue(s) ==
  IF s = <<>> THEN ParseFailed(s)
  ELSE IF Head(s) \in DigitChars
  THEN LET k == CHOOSE j \in 1..Len(s) :
                  /\ \A i \in 1..j : s[i] \in DigitChars
                  /\ (j = Len(s) \/ s[j + 1] \notin DigitChars)
       IN IF Head(s) = "0" /\ k > 1 THEN ParseFailed(Tail(s))
          ELSE Parsed(JNum(Num(StringToNat(SubSeq(s, 1, k)), 0)), SubSeq(s, k + 1, Len(s)))
  ELSE IF Head(s) = "["
  THEN IF Len(s) >= 2 /\ s[2] = "]" THEN Parsed(JArr(<<>>), SubSeq(s, 3, Len(s)))
       ELSE ParseElements(Tail(s), <<>>)
  ELSE ParseFailed(s)

\* The elements of an array after its opening bracket or after a comma.
ParseElements(s, acc) ==
  LET r == ParseValue(s)
  IN IF ~r.ok THEN r
     ELSE IF r.rest = <<>> THEN ParseFailed(r.rest)
     ELSE IF Head(r.rest) = "," THEN ParseElements(Tail(r.rest), Append(acc, r.value))
     ELSE IF Head(r.rest) = "]" THEN Parsed(JArr(Append(acc, r.value)), Tail(r.rest))
     ELSE ParseFailed(r.rest)

\* Variant of JSONparse: text after the first value is ignored.
JSONparseLenient(text) ==
  LET r == ParseValue(text)
  IN IF r.ok THEN [ok |-> TRUE, value |-> r.value]
     ELSE [ok |-> FALSE, message |-> r.message]

\* JSON.parse(text): the value, or the SyntaxError thrown.
JSONparse(text) ==
  LET r == ParseValue(text)
  IN IF r.ok /\ r.rest = <<>> THEN [ok |-> TRUE, value |-> r.value]
     ELSE IF r.ok THEN [ok |-> FALSE, message |-> UnexpectedToken]
     ELSE [ok |-> FALSE, message |-> r.message]

-----------------------------------------------------------------------------
(* Nodes. *)

NoValue == [undef |-> TRUE]

Node(id, type, key, value, depth, isExpanded, hasChildren, childCount, parent, path, index) ==
  [id |-> id, type |-> type, key |-> key, value |-> value, depth |-> depth,
   isExpanded |-> isExpanded, hasChildren |-> hasChildren, childCount |-> childCount,
   parent |-> parent, path |-> path, index |-> index]

\* node.value of a scalar JSON value
ScalarValue(v) == CASE v.type = "null" -> [null |-> TRUE]
                    [] v.type = "string" -> [str |-> v.str]
                    [] v.type = "number" -> [num |-> v.num]
                    [] v.type = "boolean" -> [bool |-> v.bool]

-----------------------------------------------------------------------------
(* Main-thread JSON builder (jsonParser.ts). *)

\* Variant of autoExpand: the first three levels start expanded.
autoExpandThreeLevels(depth) == depth <= 2

\* isExpanded of a new container: `depth < 2`, "Auto-expand first 2 levels" (the
\* same expression in jsonParser.ts, public/worker.js and xmlParser.ts).
autoExpand(depth) == depth < 2

\* A build in progress: the node list and the module-level nodeIdCounter.
BuildState(ns, ctr) == [nodes |-> ns, nodeIdCounter |-> ctr]

currentPath(st, key, parentId, path) ==
  IF path # <<>>
  THEN IF key # <<>>
       THEN path \o <<".">> \o key
       ELSE path \o <<"[">>
            \o NatToString(Cardinality({i \in 1..Len(st.nodes) : st.nodes[i].parent = parentId}))
            \o <<"]">>
  ELSE IF key # <<>> THEN key ELSE <<"r", "o", "o", "t">>

RECURSIVE buildTree(_, _, _, _, _, _, _)
RECURSIVE buildItems(_, _, _, _, _, _)
RECURSIVE buildProps(_, _, _, _, _, _)

RECURSIVE buildItemsSameDepth(_, _, _, _, _, _)
\* Variant of buildItems: the elements are built at the depth of the array.
buildItemsSameDepth(items, idx, st, depth, nodeId, path) ==
  IF idx >= Len(items) THEN st
  ELSE buildItemsSameDepth(items, idx + 1,
                           buildTree(items[idx + 1], st, depth, NatToString(idx), nodeId, path, idx),
                           depth, nodeId, path)

\* value.forEach((item, idx) => buildTree(item, nodes, depth + 1, String(idx), nodeId, currentPath, idx))
buildItems(items, idx, st, depth, nodeId, path) ==
  IF idx >= Len(items) THEN st
  ELSE buildItems(items, idx + 1,
                  buildTree(items[idx + 1], st, depth + 1, NatToString(idx), nodeId, path, idx),
                  depth, nodeId, path)

\* keys.forEach(k => buildTree(value[k], nodes, depth + 1, k, nodeId, currentPath))
buildProps(props, i, st, depth, nodeId, path) ==
  IF i > Len(props) THEN st
  ELSE buildProps(props, i + 1,
                  buildTree(props[i][2], st, depth + 1, props[i][1], nodeId, path, -1),
                  depth, nodeId, path)

buildTree(value, st, depth, key, parentId, path, index) ==
  LET nodeId == st.nodeIdCounter
      ctr == st.nodeIdCounter + 1
      cp == currentPath(st, key, parentId, path)
  IN CASE value.type \in {"null", "string", "number", "boolean"} ->
            BuildState(Append(st.nodes,
                         Node(nodeId, value.type, key, ScalarValue(value), depth,
                              FALSE, FALSE, -1, parentId, cp, index)),
                       ctr)
       [] value.type = "array" ->
            buildItems(value.items, 0,
                       BuildState(Append(st.nodes,
                                    Node(nodeId, "array", key, NoValue, depth,
                                         autoExpand(depth), Len(value.items) > 0, Len(value.items),
                                         parentId, cp, index)),
                                  ctr),
                       depth, nodeId, cp)
       [] value.type = "object" ->
            buildProps(value.props, 1,
                       BuildState(Append(st.nodes,
                                    Node(nodeId, "object", key, NoValue, depth,
                                         autoExpand(depth), Len(value.props) > 0, Len(value.props),
                                         parentId, cp, index)),
                                  ctr),
                       depth, nodeId, cp)

\* Variant of resetNodeCounter: the counter keeps its value.
keepNodeCounter(ctr) == ctr

\* resetNodeCounter(): nodeIdCounter = 0, whatever it was.
resetNodeCounter(ctr) == 0

\* The success path run with the module's nodeIdCounter at ctr: resetNodeCounter(),
\* then buildTree(parsed, nodes, 0, '', undefined).  The nodes and the counter left.
parseJsonToTreeRun(ctr, parsed) ==
  buildTree(parsed, BuildState(<<>>, resetNodeCounter(ctr)), 0, <<>>, NoId, <<>>, -1)

\* parseJsonToTree(jsonString) run with the module's nodeIdCounter at ctr: the
\* ParseResult {nodes, error} and the counter left.
parseJsonToTreeText(ctr, jsonString) ==
  LET parsed == JSONparse(jsonString)
  IN IF parsed.ok
     THEN LET run == parseJsonToTreeRun(ctr, parsed.value)
          IN [nodes |-> run.nodes, error |-> Undef, nodeIdCounter |-> run.nodeIdCounter]
     ELSE [nodes |-> <<>>, error |-> parsed.message, nodeIdCounter |-> resetNodeCounter(ctr)]

\* The nodes of the success path in a freshly loaded module.
parseJsonToTree(parsed) == buildTree(parsed, BuildState(<<>>, 0), 0, <<>>, NoId, <<>>, -1).nodes

-----------------------------------------------------------------------------
(* Worker JSON builder (public/worker.js, PARSE_JSON). *)

workerCurrentPath(key, path) ==
  IF path # <<>>
  THEN IF key # <<>> THEN path \o <<".">> \o key ELSE path
  ELSE IF key # <<>> THEN key ELSE <<"r", "o", "o", "t">>

RECURSIVE workerBuildTree(_, _, _, _, _, _)
RECURSIVE workerBuildItems(_, _, _, _, _, _)
RECURSIVE workerBuildProps(_, _, _, _, _, _)

\* value.forEach((item) => buildTree(item, nodes, depth + 1, '', nodeId, currentPath))
workerBuildItems(items, i, st, depth, nodeId, path) ==
  IF i > Len(items) THEN st
  ELSE workerBuildItems(items, i + 1,
                        workerBuildTree(items[i], st, depth + 1, <<>>, nodeId, path),
                        depth, nodeId, path)

\* keys.forEach(k => buildTree(value[k], nodes, depth + 1, k, nodeId, currentPath))
workerBuildProps(props, i, st, depth, nodeId, path) ==
  IF i > Len(props) THEN st
  ELSE workerBuildProps(props, i + 1,
                        workerBuildTree(props[i][2], st, depth + 1, props[i][1], nodeId, path),
                        depth, nodeId, path)

workerBuildTree(value, st, depth, key, parentId, path) ==
  LET nodeId == st.nodeIdCounter
      ctr == st.nodeIdCounter + 1
      cp == workerCurrentPath(key, path)
  IN CASE value.type \in {"null", "string", "number", "boolean"} ->
            BuildState(Append(st.nodes,
                         Node(nodeId, value.type, key, ScalarValue(value), depth,
                              FALSE, FALSE, -1, parentId, cp, -1)),
                       ctr)
       [] value.type = "array" ->
            workerBuildItems(value.items, 1,
                             BuildState(Append(st.nodes,
                                          Node(nodeId, "array", key, NoValue, depth,
                                               autoExpand(depth), Len(value.items) > 0,
                                               Len(value.items), parentId, cp, -1)),
                                        ctr),
                             depth, nodeId, cp)
       [] value.type = "object" ->
            workerBuildProps(value.props, 1,
                             BuildState(Append(st.nodes,
                                          Node(nodeId, "object", key, NoValue, depth,
                                               autoExpand(depth), Len(value.props) > 0,
                                               Len(value.props), parentId, cp, -1)),
                                        ctr),
                             depth, nodeId, cp)

\* The nodes of PARSE_SUCCESS: nodes = [], nodeIdCounter = 0, buildTree(parsed, nodes, 0, '', undefined).
workerParseJson(parsed) == workerBuildTree(parsed, BuildState(<<>>, 0), 0, <<>>, NoId, <<>>).nodes

-----------------------------------------------------------------------------
(* XML documents, as DOMParser returns them, and the XML builder          *)
(* (parsers/xmlParser.ts).                                                 *)

\* attrs: sequence of <<name, value>>; kids: sequence of child DOM nodes.
XElem(tag, attrs, kids) == [nodeType |-> "ELEMENT_NODE", tagName |-> tag,
                            attributes |-> attrs, childNodes |-> kids]
XText(s) == [nodeType |-> "TEXT_NODE", textContent |-> s]
XComment == [nodeType |-> "COMMENT_NODE"]

Tags == {<<"a">>, <<"a", ".", "a">>}
AttrNames == {<<"i", "d">>}
AttrValues == {<<"x">>}
Texts == {<<"x">>, <<" ">>}

RECURSIVE XElems(_, _, _)
RECURSIVE XKids(_, _, _)

\* Sequences of child DOM nodes with exactly m DOM nodes in total; other: the
\* child nodes that are neither elements nor text.
XKids(m, tags, other) ==
  IF m = 0 THEN {<<>>}
  ELSE {<<XText(t)>> \o rest : t \in Texts, rest \in XKids(m - 1, tags, other)}
       \cup {<<c>> \o rest : c \in other, rest \in XKids(m - 1, tags, other)}
       \cup UNION {{<<e>> \o rest : e \in XElems(j, tags, other), rest \in XKids(m - j, tags, other)}
                   : j \in 1..m}

\* Attribute lists with exactly m attributes (names are unique in an element).
XAttrs(m) ==
  IF m = 0 THEN {<<>>}
  ELSE IF m = 1 THEN {<< <<n, v>> >> : <<n, v>> \in AttrNames \X AttrValues}
  ELSE {}

\* Elements with exactly n DOM nodes (elements, attributes, texts, comments).
XElems(n, tags, other) ==
  IF n < 1 THEN {}
  ELSE UNION {{XElem(t, attrs, kids) :
                 t \in tags, attrs \in XAttrs(a), kids \in XKids(n - 1 - a, tags, other)}
              : a \in 0..(IF n - 1 < 1 THEN n - 1 ELSE 1)}

\* The documents handed to the XML builder.
XmlDocs == UNION {XElems(n, Tags, {XComment}) : n \in 1..MaxNodes}

\* The XML documents whose node lists the mutation operators are applied to.
OpTags == {<<"a">>}
OpXmlDocs == UNION {XElems(n, OpTags, {}) : n \in 1..MaxOpNodes}

\* node.nodeType === ELEMENT_NODE || (node.nodeType === TEXT_NODE && node.textContent?.trim())
\* Variant of MeaningfulChild: comments and blank text count as children too.
EveryChild(n) == n.nodeType \in {"ELEMENT_NODE", "TEXT_NODE", "COMMENT_NODE"}

MeaningfulChild(n) ==
  \/ n.nodeType = "ELEMENT_NODE"
  \/ n.nodeType = "TEXT_NODE" /\ trim(n.textContent) # <<>>

RECURSIVE buildXmlTree(_, _, _, _, _, _)
RECURSIVE buildXmlAttrs(_, _, _, _, _, _)
RECURSIVE buildXmlKids(_, _, _, _, _, _)

\* for (let i = 0; i < attributes.length; i++) { ... nodes.push({...}) }
buildXmlAttrs(attrs, i, st, depth, nodeId, cp) ==
  IF i > Len(attrs) THEN st
  ELSE buildXmlAttrs(attrs, i + 1,
         BuildState(Append(st.nodes,
                      Node(st.nodeIdCounter, "string", <<"@">> \o attrs[i][1],
                           [str |-> attrs[i][2]], depth + 1, FALSE, FALSE, -1, nodeId,
                           cp \o <<".", "@">> \o attrs[i][1], -1)),
                    st.nodeIdCounter + 1),
         depth, nodeId, cp)

\* childNodes.forEach((child) => buildXmlTree(child, nodes, depth + 1, '', nodeId, currentPath))
buildXmlKids(kids, i, st, depth, nodeId, cp) ==
  IF i > Len(kids) THEN st
  ELSE buildXmlKids(kids, i + 1,
                    buildXmlTree(kids[i], st, depth + 1, <<>>, nodeId, cp),
                    depth, nodeId, cp)

buildXmlTree(element, st, depth, key, parentId, path) ==
  LET nodeId == st.nodeIdCounter
      ctr == st.nodeIdCounter + 1
  IN CASE element.nodeType = "TEXT_NODE" ->
            LET textContent == trim(element.textContent)
            IN IF textContent = <<>> THEN BuildState(st.nodes, ctr)
               ELSE BuildState(Append(st.nodes,
                                 Node(nodeId, "string", Undef, [str |-> textContent], depth,
                                      FALSE, FALSE, -1, parentId,
                                      IF path # <<>> THEN path \o <<".", "t", "e", "x", "t">>
                                      ELSE <<"t", "e", "x", "t">>, -1)),
                               ctr)
       [] element.nodeType = "ELEMENT_NODE" ->
            LET tagName == IF key # <<>> THEN key ELSE element.tagName
                cp == IF path # <<>> THEN path \o <<".">> \o tagName ELSE tagName
                attributes == element.attributes
                childNodes == SelectSeq(element.childNodes, MeaningfulChild)
                hasChildren == Len(attributes) > 0 \/ Len(childNodes) > 0
                st1 == BuildState(Append(st.nodes,
                                    Node(nodeId, "object", tagName, NoValue, depth, autoExpand(depth),
                                         hasChildren, Len(attributes) + Len(childNodes),
                                         parentId, cp, -1)),
                                  ctr)
                st2 == buildXmlAttrs(attributes, 1, st1, depth, nodeId, cp)
            IN IF Len(childNodes) = 1 /\ childNodes[1].nodeType = "TEXT_NODE"
               THEN LET textContent == trim(childNodes[1].textContent)
                    IN IF textContent # <<>>
                       THEN BuildState(Append(st2.nodes,
                                         Node(st2.nodeIdCounter, "string", Undef,
                                              [str |-> textContent], depth + 1, FALSE, FALSE,
                                              -1, nodeId, cp \o <<".", "t", "e", "x", "t">>, -1)),
                                       st2.nodeIdCounter + 1)
                       ELSE st2
               ELSE buildXmlKids(childNodes, 1, st2, depth, nodeId, cp)
       [] OTHER -> BuildState(st.nodes, ctr)

\* xmlParser.ts has a nodeIdCounter and a resetNodeCounter() of its own.
xmlResetNodeCounter(ctr) == 0

\* The success path run with xmlParser's nodeIdCounter at ctr: resetNodeCounter(),
\* then buildXmlTree(root, nodes, 0, '', undefined).  The nodes and the counter left.
parseXmlToTreeRun(ctr, root) ==
  buildXmlTree(root, BuildState(<<>>, xmlResetNodeCounter(ctr)), 0, <<>>, NoId, <<>>)

\* The nodes of the success path in a freshly loaded module.
parseXmlToTree(root) == buildXmlTree(root, BuildState(<<>>, 0), 0, <<>>, NoId, <<>>).nodes

-----------------------------------------------------------------------------
(* Visibility resolver, mutation operators and search (jsonParser.ts).     *)

Ids(ns) == {ns[i].id : i \in 1..Len(ns)}

\* nodeMap.get(id) after allNodes.forEach(node => nodeMap.set(node.id, node)):
\* the last node set under the id. Only applied to ids in Ids(ns).
MapGet(ns, id) == ns[CHOOSE i \in 1..Len(ns) : ns[i].id = id /\ \A j \in (i + 1)..Len(ns) : ns[j].id # id]

\* nodes.find(node => node.id === id): the first node with the id.
Find(ns, id) == ns[CHOOSE i \in 1..Len(ns) : ns[i].id = id /\ \A j \in 1..(i - 1) : ns[j].id # id]

\* Variant of ParentsExpanded: only the direct parent is looked at.
ParentsExpandedDirect(ns, parentId) ==
  IF parentId = NoId \/ parentId \notin Ids(ns) THEN TRUE
  ELSE MapGet(ns, parentId).isExpanded

RECURSIVE ParentsExpanded(_, _)
\* The while (parent) loop of getVisibleNodes, entered with the node's parent id:
\* TRUE iff the loop ends with isVisible = true.
ParentsExpanded(ns, parentId) ==
  IF parentId = NoId \/ parentId \notin Ids(ns) THEN TRUE
  ELSE LET parent == MapGet(ns, parentId)
       IN IF ~parent.isExpanded THEN FALSE
          ELSE ParentsExpanded(ns, parent.parent)

\* Variant of getVisibleNodes: the visible nodes are returned last to first.
getVisibleNodesReversed(allNodes) ==
  LET isVisible(node) == ParentsExpanded(allNodes, node.parent)
      visible == SelectSeq(allNodes, isVisible)
  IN [k \in 1..Len(visible) |-> visible[Len(visible) + 1 - k]]

getVisibleNodes(allNodes) ==
  LET isVisible(node) == ParentsExpanded(allNodes, node.parent)
  IN SelectSeq(allNodes, isVisible)

\* Variant of toggleNode: collapsing a node also collapses its parent.
toggleNodeWithParent(ns, nodeId) ==
  LET target == {i \in 1..Len(ns) : ns[i].id = nodeId /\ ns[i].hasChildren}
  IN [i \in 1..Len(ns) |->
        IF i \in target THEN [ns[i] EXCEPT !.isExpanded = ~ns[i].isExpanded]
        ELSE IF \E t \in target : ns[t].parent = ns[i].id /\ ns[t].isExpanded
             THEN [ns[i] EXCEPT !.isExpanded = FALSE]
             ELSE ns[i]]

\* Variant of toggleNode: the flip is also written to the children of the node.
toggleNodeCascade(ns, nodeId) ==
  LET target == {i \in 1..Len(ns) : ns[i].id = nodeId /\ ns[i].hasChildren}
  IN [i \in 1..Len(ns) |->
        IF i \in target THEN [ns[i] EXCEPT !.isExpanded = ~ns[i].isExpanded]
        ELSE IF \E t \in target : ns[i].parent = ns[t].id
             THEN [ns[i] EXCEPT !.isExpanded = FALSE]
             ELSE ns[i]]

\* Variant of toggleNode: the node is always set expanded.
toggleNodeExpandOnly(ns, nodeId) ==
  [i \in 1..Len(ns) |->
     IF ns[i].id = nodeId /\ ns[i].hasChildren
     THEN [ns[i] EXCEPT !.isExpanded = TRUE]
     ELSE ns[i]]

toggleNode(ns, nodeId) ==
  [i \in 1..Len(ns) |->
     IF ns[i].id = nodeId /\ ns[i].hasChildren
     THEN [ns[i] EXCEPT !.isExpanded = ~ns[i].isExpanded]
     ELSE ns[i]]

\* Variant of expandAll: only the first two levels are expanded.
expandAllTopLevels(ns) ==
  [i \in 1..Len(ns) |-> IF ns[i].depth < 2 THEN [ns[i] EXCEPT !.isExpanded = TRUE] ELSE ns[i]]

expandAll(ns) == [i \in 1..Len(ns) |-> [ns[i] EXCEPT !.isExpanded = TRUE]]

\* Variant of collapseAll: the hidden nodes are dropped from the list.
collapseAllPruning(ns) ==
  LET top(node) == node.parent = NoId
      kept == SelectSeq(ns, top)
  IN [i \in 1..Len(kept) |-> [kept[i] EXCEPT !.isExpanded = FALSE]]

collapseAll(ns) == [i \in 1..Len(ns) |-> [ns[i] EXCEPT !.isExpanded = FALSE]]

\* The tests of one forEach step of searchNodes.
Matches(node, query) ==
  LET lowerQuery == toLowerCase(query)
  IN \/ Truthy(node.key) /\ includes(toLowerCase(node.key), lowerQuery)
     \/ node.type = "string" /\ DOMAIN node.value = {"str"}
          /\ includes(toLowerCase(node.value.str), lowerQuery)
     \/ node.type = "number" /\ includes(NumberToString(node.value.num), query)
     \/ includes(toLowerCase(node.path), lowerQuery)

\* Variant of searchNodes: a blank query is searched for like any other.
searchNodesNoBlankCheck(ns, query) ==
  LET hit(node) == Matches(node, query)
      found == SelectSeq(ns, hit)
  IN [i \in 1..Len(found) |-> found[i].id]

\* The match set in insertion order (a JavaScript Set iterates in insertion order).
searchNodes(ns, query) ==
  IF trim(query) = <<>> THEN <<>>
  ELSE LET hit(node) == Matches(node, query)
           found == SelectSeq(ns, hit)
       IN [i \in 1..Len(found) |-> found[i].id]

Range(f) == {f[i] : i \in DOMAIN f}

\* The paths pathParts.slice(0, i + 1).join('.') that differ from the node's path.
PrefixPaths(path) ==
  LET pathParts == split(path, ".")
  IN {p \in {join(SubSeq(pathParts, 1, i), ".") : i \in 1..Len(pathParts)} :
        p # <<>> /\ p # path}

\* nodes.map(node => parentPaths.has(node.path) && node.hasChildren ? {...node, isExpanded: true} : node)
ExpandPaths(ns, parentPaths) ==
  [i \in 1..Len(ns) |->
     IF ns[i].path \in parentPaths /\ ns[i].hasChildren
     THEN [ns[i] EXCEPT !.isExpanded = TRUE]
     ELSE ns[i]]

expandToNode(ns, targetNodeId) ==
  IF targetNodeId \notin Ids(ns) THEN ns
  ELSE ExpandPaths(ns, PrefixPaths(Find(ns, targetNodeId).path))

\* matchIds: a sequence of ids.
expandToMatches(ns, matchIds) ==
  ExpandPaths(ns, UNION {PrefixPaths(Find(ns, id).path) : id \in Range(matchIds) \cap Ids(ns)})

\* The nodes of EXPAND_SUCCESS for EXPAND_TO_MATCHES {nodes, matchIds} (public/worker.js).
workerExpandToMatches(ns, matchIds) ==
  ExpandPaths(ns, UNION {PrefixPaths(MapGet(ns, id).path) :
                           id \in {m \in Range(matchIds) \cap Ids(ns) : MapGet(ns, m).path # <<>>}})

\* A message the worker posts; the fields a message does not carry are undefined.
Message(type, ns, err, message) == [type |-> type, nodes |-> ns, error |-> err, message |-> message]

NoNodes == <<[undef |-> TRUE]>>

Progress(message) == Message("PARSE_PROGRESS", NoNodes, Undef, message)

\* The message of the TypeError thrown on data that has no nodes or matchIds.
TypeErrorMessage == <<"n", "o", "t", " ", "i", "t", "e", "r", "a", "b", "l", "e">>

WellFormed(data) == DOMAIN data = {"nodes", "matchIds"}

\* Variant of workerOnMessage: a text that does not parse is answered with the
\* first progress message only.
workerOnMessageSilent(request, timed) ==
  IF request.type = "PARSE_JSON"
  THEN LET parsed == JSONparse(request.data)
       IN IF parsed.ok
          THEN <<Progress(<<"P">>), Progress(<<"B">>),
                 Message("PARSE_SUCCESS", workerParseJson(parsed.value), Undef, Undef)>>
          ELSE <<Progress(<<"P">>)>>
  ELSE IF request.type = "EXPAND_TO_MATCHES" /\ WellFormed(request.data)
  THEN <<Message("EXPAND_SUCCESS",
                 workerExpandToMatches(request.data.nodes, request.data.matchIds), Undef, Undef)>>
  ELSE <<>>

\* Variant of workerOnMessage: once an error has been posted, every later
\* request is answered with an error.
workerOnMessageSticky(request, timed) ==
  IF \E i \in 1..Len(outbox) : outbox[i].msg.type \in {"PARSE_ERROR", "EXPAND_ERROR"}
  THEN IF request.type = "PARSE_JSON"
       THEN <<Progress(<<"P">>), Message("PARSE_ERROR", NoNodes, UnexpectedToken, Undef)>>
       ELSE IF request.type = "EXPAND_TO_MATCHES"
       THEN <<Message("EXPAND_ERROR", NoNodes, TypeErrorMessage, Undef)>>
       ELSE <<>>
  ELSE IF request.type = "PARSE_JSON"
  THEN LET parsed == JSONparse(request.data)
       IN IF parsed.ok
          THEN <<Progress(<<"P">>), Progress(<<"B">>)>>
               \o [i \in 1..timed |-> Progress(<<"N">>)]
               \o <<Progress(<<"F">>),
                    Message("PARSE_SUCCESS", workerParseJson(parsed.value), Undef, Undef)>>
          ELSE <<Progress(<<"P">>), Message("PARSE_ERROR", NoNodes, parsed.message, Undef)>>
  ELSE IF request.type = "EXPAND_TO_MATCHES"
  THEN IF WellFormed(request.data)
       THEN <<Message("EXPAND_SUCCESS",
                      workerExpandToMatches(request.data.nodes, request.data.matchIds),
                      Undef, Undef)>>
       ELSE <<Message("EXPAND_ERROR", NoNodes, TypeErrorMessage, Undef)>>
  ELSE <<>>

\* self.onmessage (public/worker.js): the messages posted while one request is
\* handled.  timed: how many of the buildTree calls find more than 500 ms on
\* the clock since the last report.  Progress texts are abbreviated to
\* P(arsing), B(uilding), N (nodes built), F(inalizing).
workerOnMessage(request, timed) ==
  IF request.type = "PARSE_JSON"
  THEN LET parsed == JSONparse(request.data)
       IN IF parsed.ok
          THEN <<Progress(<<"P">>), Progress(<<"B">>)>>
               \o [i \in 1..timed |-> Progress(<<"N">>)]
               \o <<Progress(<<"F">>),
                    Message("PARSE_SUCCESS", workerParseJson(parsed.value), Undef, Undef)>>
          ELSE <<Progress(<<"P">>), Message("PARSE_ERROR", NoNodes, parsed.message, Undef)>>
  ELSE IF request.type = "EXPAND_TO_MATCHES"
  THEN IF WellFormed(request.data)
       THEN <<Message("EXPAND_SUCCESS",
                      workerExpandToMatches(request.data.nodes, request.data.matchIds),
                      Undef, Undef)>>
       ELSE <<Message("EXPAND_ERROR", NoNodes, TypeErrorMessage, Undef)>>
  ELSE <<>>

\* The number of buildTree calls of a PARSE_JSON request (one per node built).
BuildCalls(request) ==
  IF request.type = "PARSE_JSON" /\ JSONparse(request.data).ok
  THEN Len(workerParseJson(JSONparse(request.data).value))
  ELSE 0

-----------------------------------------------------------------------------
(* The history store (indexedDBStorage.ts).  history.entries is the object *)
(* store in insertion order; an entry id `history_<time>_<random>` is      *)
(* fresh and is the natural number history.nextId; history.now is the      *)
(* clock new Date() reads, history.lastCall the arguments of the last      *)
(* saveToHistory call.  dateString is now.toLocaleString() of the          *)
(* timestamp and is not kept apart from it.  Opening the database and the  *)
(* requests on the store succeed.                                          *)

MAX_HISTORY_ENTRIES == 50

HistoryEntry(id, formatType, content, preview, timestamp, sessionId) ==
  [id |-> id, formatType |-> formatType, content |-> content, preview |-> preview,
   timestamp |-> timestamp, sessionId |-> sessionId]

NoCall == [content |-> Undef, formatType |-> "json", sessionId |-> NoId]

EmptyHistory == [entries |-> <<>>, nextId |-> 1, now |-> 0, lastCall |-> NoCall]

\* s.substring(0, n)
substring0(s, n) == SubSeq(s, 1, IF Len(s) < n THEN Len(s) ELSE n)

\* sessionIndex.get(sessionId): the position of the entry of that session with
\* the least key, 0 when there is none.
sessionIndexGet(entries, sessionId) ==
  IF \E i \in 1..Len(entries) : entries[i].sessionId = sessionId
  THEN CHOOSE i \in 1..Len(entries) :
         /\ entries[i].sessionId = sessionId
         /\ \A j \in 1..Len(entries) :
              entries[j].sessionId = sessionId => entries[i].id <= entries[j].id
  ELSE 0

RECURSIVE deleteOldest(_, _)
\* The cursor over the timestamp index deletes the toDelete oldest entries
\* (equal timestamps in the order of the ids).
deleteOldest(entries, toDelete) ==
  IF toDelete <= 0 \/ entries = <<>> THEN entries
  ELSE LET oldest == CHOOSE i \in 1..Len(entries) :
                       \A j \in 1..Len(entries) :
                         \/ entries[i].timestamp < entries[j].timestamp
                         \/ entries[i].timestamp = entries[j].timestamp
                              /\ entries[i].id <= entries[j].id
       IN deleteOldest(SubSeq(entries, 1, oldest - 1)
                         \o SubSeq(entries, oldest + 1, Len(entries)),
                       toDelete - 1)

cleanupOldEntries(entries) ==
  IF Len(entries) > MAX_HISTORY_ENTRIES
  THEN deleteOldest(entries, Len(entries) - MAX_HISTORY_ENTRIES)
  ELSE entries

\* Variant of saveToHistory: the session index is not consulted.
saveToHistoryAlwaysNew(h, content, formatType, sessionId) ==
  LET entry == HistoryEntry(h.nextId, formatType, content, substring0(trim(content), 100),
                            h.now, sessionId)
  IN [h EXCEPT !.entries = cleanupOldEntries(Append(h.entries, entry)),
               !.nextId = h.nextId + 1]

\* saveToHistory(content, formatType, sessionId) at the time h.now.
saveToHistory(h, content, formatType, sessionId) ==
  LET preview == substring0(trim(content), 100)
      existing == IF sessionId # NoId THEN sessionIndexGet(h.entries, sessionId) ELSE 0
  IN IF existing # 0
     THEN [h EXCEPT !.entries[existing] =
                      [h.entries[existing] EXCEPT !.content = content,
                                                  !.preview = preview,
                                                  !.timestamp = h.now]]
     ELSE LET entry == HistoryEntry(h.nextId, formatType, content, preview, h.now, sessionId)
          IN [h EXCEPT !.entries = cleanupOldEntries(Append(h.entries, entry)),
                       !.nextId = h.nextId + 1]

-----------------------------------------------------------------------------
(* The tab manager (useTabManager.ts).  Its state and the state of the     *)
(* orchestration layer that uses it (App.tsx) are the fields of the record *)
(* app.  A tab id `tab_<time>_<random>` and a session id                   *)
(* `session_<time>_<random>` are fresh on every call and are the natural   *)
(* number app.nextId; the activeTabId '' before the first tab is NoTab and *)
(* an absent session id is NoId.  A title `Untitled-<n>.<format>` is the   *)
(* pair <<n, format>>.                                                     *)

\* The sample documents a tab starts with, abbreviated to a text of the
\* alphabet JSON.parse is modelled on and to a one-element document.
SAMPLE_JSON == <<"[", "1", ",", "1", "]">>
SAMPLE_XML == <<"<", "a", "/", ">">>

NoTab == 0

NoTimer == [armed |-> FALSE]

NoReader == [pending |-> FALSE]

\* The last handler that ran: its name, the tab id or position it was given,
\* and what it found.
LastOp(name, id, index, flag) == [name |-> name, id |-> id, index |-> index, flag |-> flag]

TabData(id, title, formatType, content, ns, err, sessionId) ==
  [id |-> id, title |-> title, formatType |-> formatType, content |-> content,
   nodes |-> ns, error |-> err, sessionId |-> sessionId]

\* The state before the first tab is created (the useState/useRef initial values).
BlankApp ==
  [tabs |-> <<>>, activeTabId |-> NoTab, jsonInput |-> <<>>, allNodes |-> <<>>,
   error |-> Undef, formatType |-> "json", currentSessionIdRef |-> NoId, nextId |-> 1,
   currentSessionId |-> NoId, parseInputTab |-> NoTab, isProcessing |-> FALSE,
   searchQuery |-> <<>>, searchMatches |-> <<>>, lastSearchQueryRef |-> <<>>,
   matchesFresh |-> FALSE, currentMatchIndex |-> -1, isExpandingRef |-> FALSE,
   pendingScrollRef |-> NoId, scrollTimer |-> <<>>, scrolled |-> <<>>,
   debounceTimer |-> <<>>, debounceCleanup |-> FALSE, expansionTimer |-> NoTimer,
   mountParseRef |-> FALSE,
   inflight |-> <<>>, reader |-> NoReader, saved |-> <<>>, parsed |-> <<>>,
   lastOp |-> LastOp("mount", NoTab, NoId, FALSE)]

\* No tab manager or orchestration layer is running and the history is empty.
AppIdle ==
  /\ app = BlankApp
  /\ history = EmptyHistory

\* tabs.findIndex(tab => tab.id === tabId), counted from 0; -1 when absent.
findIndex(tabs, tabId) ==
  IF \E i \in 1..Len(tabs) : tabs[i].id = tabId
  THEN (CHOOSE i \in 1..Len(tabs) : tabs[i].id = tabId /\ \A j \in 1..(i - 1) : tabs[j].id # tabId) - 1
  ELSE -1

HasTab(a, tabId) == findIndex(a.tabs, tabId) >= 0

\* tabs.find(tab => tab.id === activeTabId); only used when the tab exists.
activeTab(a) == a.tabs[findIndex(a.tabs, a.activeTabId) + 1]

\* setTabs(prev => prev.map(tab => tab.id === tabId ? {...tab, [field]: v} : tab))
mapTab(a, tabId, field, v) ==
  [a EXCEPT !.tabs = [i \in 1..Len(a.tabs) |->
                        IF a.tabs[i].id = tabId THEN [a.tabs[i] EXCEPT ![field] = v]
                        ELSE a.tabs[i]]]

\* The setters that update both the state and the tab; tabId is the
\* activeTabId of the render that created the callback.
setJsonInput(a, tabId, content) ==
  LET b == [a EXCEPT !.jsonInput = content]
  IN IF tabId # NoTab THEN mapTab(b, tabId, "content", content) ELSE b

setAllNodes(a, tabId, ns) ==
  LET b == [a EXCEPT !.allNodes = ns]
  IN IF tabId # NoTab THEN mapTab(b, tabId, "nodes", ns) ELSE b

setError(a, tabId, err) ==
  LET b == [a EXCEPT !.error = err]
  IN IF tabId # NoTab THEN mapTab(b, tabId, "error", err) ELSE b

setFormatType(a, tabId, formatType) ==
  LET b == [a EXCEPT !.formatType = formatType]
  IN IF tabId # NoTab THEN mapTab(b, tabId, "formatType", formatType) ELSE b

setActiveTabId(a, tabId) == [a EXCEPT !.activeTabId = tabId]

updateTabTitle(a, tabId, title) == mapTab(a, tabId, "title", title)

\* The tab createNewTab and closeTab make: its id and its session id are fresh.
NewTab(a, n, formatType) ==
  TabData(a.nextId, <<n, formatType>>, formatType,
          IF formatType = "json" THEN SAMPLE_JSON ELSE SAMPLE_XML,
          <<>>, Undef, a.nextId)

createNewTab(a, formatType) ==
  LET newTab == NewTab(a, Len(a.tabs) + 1, formatType)
  IN [a EXCEPT !.tabs = Append(a.tabs, newTab),
               !.activeTabId = newTab.id,
               !.jsonInput = newTab.content,
               !.allNodes = newTab.nodes,
               !.error = newTab.error,
               !.formatType = newTab.formatType,
               !.currentSessionIdRef = newTab.sessionId,
               !.nextId = a.nextId + 1]

\* Variant of closeTab: the last tab can be closed, which leaves no tab.
closeTabToEmpty(a, tabId) ==
  LET keep(tab) == tab.id # tabId
      filtered == SelectSeq(a.tabs, keep)
  IN IF a.activeTabId = tabId /\ Len(filtered) > 0
     THEN LET currentIndex == findIndex(a.tabs, tabId)
              newActiveIndex == IF currentIndex > 0 THEN currentIndex - 1 ELSE 0
          IN [a EXCEPT !.tabs = filtered, !.activeTabId = filtered[newActiveIndex + 1].id]
     ELSE [a EXCEPT !.tabs = filtered]

\* Variant of closeTab: closing the active tab activates the tab that takes
\* its position.
closeTabActivateNext(a, tabId) ==
  LET keep(tab) == tab.id # tabId
      filtered == SelectSeq(a.tabs, keep)
  IN IF a.activeTabId = tabId /\ Len(filtered) > 0
     THEN LET currentIndex == findIndex(a.tabs, tabId)
              newActiveIndex == IF currentIndex < Len(filtered) THEN currentIndex
                                ELSE Len(filtered) - 1
          IN [a EXCEPT !.tabs = filtered, !.activeTabId = filtered[newActiveIndex + 1].id]
     ELSE IF Len(filtered) = 0
     THEN LET newTab == NewTab(a, 1, "json")
          IN [a EXCEPT !.tabs = <<newTab>>, !.activeTabId = newTab.id,
                       !.nextId = a.nextId + 1]
     ELSE [a EXCEPT !.tabs = filtered]

closeTab(a, tabId) ==
  LET keep(tab) == tab.id # tabId
      filtered == SelectSeq(a.tabs, keep)
  IN IF a.activeTabId = tabId /\ Len(filtered) > 0
     THEN LET currentIndex == findIndex(a.tabs, tabId)
              newActiveIndex == IF currentIndex > 0 THEN currentIndex - 1 ELSE 0
          IN [a EXCEPT !.tabs = filtered, !.activeTabId = filtered[newActiveIndex + 1].id]
     ELSE IF Len(filtered) = 0
     THEN LET newTab == NewTab(a, 1, "json")
          IN [a EXCEPT !.tabs = <<newTab>>, !.activeTabId = newTab.id,
                       !.nextId = a.nextId + 1]
     ELSE [a EXCEPT !.tabs = filtered]

\* The dependencies of the effect that syncs the active tab into the state:
\* [activeTab?.id, activeTab?.sessionId].
activeTabDeps(a) ==
  IF HasTab(a, a.activeTabId) THEN <<activeTab(a).id, activeTab(a).sessionId>>
  ELSE <<NoTab, NoId>>

\* The body of that effect.
syncActiveTab(a) ==
  IF HasTab(a, a.activeTabId)
  THEN [a EXCEPT !.jsonInput = activeTab(a).content,
                 !.allNodes = activeTab(a).nodes,
                 !.error = activeTab(a).error,
                 !.formatType = activeTab(a).formatType,
                 !.currentSessionIdRef = activeTab(a).sessionId]
  ELSE a

-----------------------------------------------------------------------------
(* The orchestration layer (App.tsx) and the worker hook (useWebWorker.ts).*)
(* app.inflight holds the requests posted to the current worker and not    *)
(* answered yet; app.debounceTimer, app.expansionTimer, app.mountParseRef  *)
(* and app.reader are the pending timers and the pending file read;        *)
(* app.currentSessionId and app.parseInputTab are what the last render     *)
(* read: the session id, and the activeTabId the setters inside the        *)
(* memoized parseInput were made for.  app.saved lists the saveToHistory   *)
(* calls and app.parsed the parses that ended during the last step.  The   *)
(* view state that no handler modelled here reads (theme, view mode,       *)
(* validation markers, progress text, scroll position, current match       *)
(* index) is left out, and so are the tree buttons, whose operators are    *)
(* the subject of Spec.                                                    *)

\* DOMParser.parseFromString(text, 'text/xml') on the texts of the model: the
\* document element of a well-formed text, a parsererror document otherwise.
XmlDeep == <<"<", "a", ">", "<", "a", ">", "<", "a", ">", "1",
             "<", "/", "a", ">", "<", "/", "a", ">", "<", "/", "a", ">">>

ParserError == <<"p", "a", "r", "s", "e", "r", "e", "r", "r", "o", "r">>

DOMParserParse(text) ==
  IF text = SAMPLE_XML
  THEN [ok |-> TRUE, documentElement |-> XElem(<<"a">>, <<>>, <<>>)]
  ELSE IF text = XmlDeep
  THEN [ok |-> TRUE,
        documentElement |->
          XElem(<<"a">>, <<>>,
                <<XElem(<<"a">>, <<>>, <<XElem(<<"a">>, <<>>, <<XText(<<"1">>)>>)>>)>>)]
  ELSE [ok |-> FALSE, message |-> ParserError]

\* The messages App.tsx sets itself, abbreviated.
PleaseEnter == <<"P", "l", "e", "a", "s", "e", " ", "e", "n", "t", "e", "r">>
FailedToRead == <<"F", "a", "i", "l", "e", "d", " ", "t", "o", " ", "r", "e", "a", "d">>

SaveCall(content, formatType, sessionId) ==
  [content |-> content, formatType |-> formatType, sessionId |-> sessionId]

ParseOutcome(text, formatType, ok) == [text |-> text, formatType |-> formatType, ok |-> ok]

\* useWebWorker: parseJson(input) and expandToMatches(nodes, matchIds) post to
\* the current worker.
hookParseJson(a, text) ==
  [a EXCEPT !.inflight = Append(a.inflight, [type |-> "PARSE_JSON", data |-> text])]

hookExpandToMatches(a, ns, matchIds) ==
  [a EXCEPT !.inflight = Append(a.inflight,
                                [type |-> "EXPAND_TO_MATCHES",
                                 data |-> [nodes |-> ns, matchIds |-> matchIds]])]

\* The number of EXPAND_TO_MATCHES requests waiting for the worker.
Expands(a) ==
  LET isExpand(request) == request.type = "EXPAND_TO_MATCHES"
  IN Len(SelectSeq(a.inflight, isExpand))

\* parseInput(text) as memoized for formatType, with setters made for tabId.
parseInput(a, formatType, tabId, text) ==
  IF text = <<>> \/ trim(text) = <<>>
  THEN [setError(setAllNodes(a, tabId, <<>>), tabId, Undef) EXCEPT !.isProcessing = FALSE]
  ELSE LET b == [setError(a, tabId, Undef) EXCEPT !.isProcessing = TRUE]
       IN IF formatType = "xml"
          THEN LET xmlDoc == DOMParserParse(text)
               IN IF ~xmlDoc.ok
                  THEN [setAllNodes(setError(b, tabId, xmlDoc.message), tabId, <<>>)
                          EXCEPT !.isProcessing = FALSE,
                                 !.parsed = Append(b.parsed, ParseOutcome(text, "xml", FALSE))]
                  ELSE LET c == [setAllNodes(b, tabId, parseXmlToTree(xmlDoc.documentElement))
                                   EXCEPT !.isProcessing = FALSE,
                                          !.parsed = Append(b.parsed,
                                                            ParseOutcome(text, "xml", TRUE))]
                       IN IF trim(text) # <<>> /\ text # SAMPLE_XML
                          THEN [c EXCEPT !.saved = Append(c.saved,
                                                          SaveCall(text, "xml",
                                                                   c.currentSessionIdRef))]
                          ELSE c
          ELSE hookParseJson(b, text)

\* The callbacks of the worker; their setters are made for the activeTabId of
\* the render the worker was created in, which is the current one.
onParseSuccess(a, ns, originalInput) ==
  LET b == [setError(setAllNodes(a, a.activeTabId, ns), a.activeTabId, Undef)
              EXCEPT !.isProcessing = FALSE]
  IN IF Truthy(originalInput) /\ trim(originalInput) # <<>> /\ originalInput # SAMPLE_JSON
     THEN [b EXCEPT !.saved = Append(b.saved,
                                     SaveCall(originalInput, "json", b.currentSessionIdRef))]
     ELSE b

onParseError(a, err) ==
  [setAllNodes(setError(a, a.activeTabId, err), a.activeTabId, <<>>)
     EXCEPT !.isProcessing = FALSE]

\* The ids of the nodes that are in searchMatches, in the order of the list.
matchIds(a) ==
  LET isMatch(node) == \E i \in 1..Len(a.searchMatches) : a.searchMatches[i] = node.id
      found == SelectSeq(a.allNodes, isMatch)
  IN [i \in 1..Len(found) |-> found[i].id]

\* treeRef.current is set while the tree view is rendered: the tree mode is on,
\* nothing is being processed and no error is shown.
treeRef(a) == ~a.isProcessing /\ ~Truthy(a.error)

\* formattedCode up to equality: the empty text, or the parsed document, of
\* which the pretty-printed text is a one-to-one image.
formattedCode(a) ==
  IF Truthy(a.error) \/ a.allNodes = <<>> THEN <<>>
  ELSE IF a.formatType = "xml" THEN <<"xml", a.jsonInput>>
  ELSE LET parsed == JSONparse(a.jsonInput)
       IN IF parsed.ok THEN <<"json", parsed.value>> ELSE <<>>

onExpandSuccess(a, ns) ==
  LET b == [setAllNodes(a, a.activeTabId, ns) EXCEPT !.isExpandingRef = FALSE]
  IN IF b.pendingScrollRef # NoId /\ treeRef(a)
     THEN [b EXCEPT !.scrollTimer = Append(b.scrollTimer, b.pendingScrollRef),
                    !.pendingScrollRef = NoId]
     ELSE b

onExpandError(a, err) == [a EXCEPT !.isExpandingRef = FALSE, !.pendingScrollRef = NoId]

\* workerRef.current.onmessage: a field the message does not carry is
\* undefined; PARSE_PROGRESS only changes the progress text.
workerRefOnMessage(a, msg) ==
  LET originalInput == IF "originalInput" \in DOMAIN msg THEN msg.originalInput ELSE Undef
  IN IF msg.type = "PARSE_SUCCESS" /\ msg.nodes # NoNodes
     THEN onParseSuccess(a, msg.nodes, originalInput)
     ELSE IF msg.type = "PARSE_ERROR" /\ Truthy(msg.error)
     THEN onParseError(a, msg.error)
     ELSE IF msg.type = "EXPAND_SUCCESS" /\ msg.nodes # NoNodes
     THEN onExpandSuccess(a, msg.nodes)
     ELSE IF msg.type = "EXPAND_ERROR" /\ Truthy(msg.error)
     THEN onExpandError(a, msg.error)
     ELSE a

handleFormatChange(a, newFormat) ==
  LET newContent == IF newFormat = "xml" THEN SAMPLE_XML ELSE SAMPLE_JSON
      tabId == a.activeTabId
      b == setError(setAllNodes(setJsonInput(setFormatType(a, tabId, newFormat),
                                             tabId, newContent),
                                tabId, <<>>),
                    tabId, Undef)
      tabIndex == findIndex(a.tabs, a.activeTabId)
      c == IF tabIndex # -1 THEN updateTabTitle(b, a.activeTabId, <<tabIndex + 1, newFormat>>)
           ELSE b
  IN [c EXCEPT !.searchQuery = <<>>]

handleFormat(a) ==
  IF trim(a.jsonInput) = <<>> THEN setError(a, a.activeTabId, PleaseEnter)
  ELSE parseInput(a, a.formatType, a.parseInputTab, a.jsonInput)

handleFileUpload(a) ==
  [a EXCEPT !.isProcessing = TRUE,
            !.reader = [pending |-> TRUE, tab |-> a.activeTabId,
                        formatType |-> a.formatType, parseInputTab |-> a.parseInputTab]]

readerOnload(a, text) ==
  parseInput(setJsonInput([a EXCEPT !.reader = NoReader], a.reader.tab, text),
             a.reader.formatType, a.reader.parseInputTab, text)

readerOnerror(a) ==
  [setError([a EXCEPT !.reader = NoReader], a.reader.tab, FailedToRead)
     EXCEPT !.isProcessing = FALSE]

handleClear(a) ==
  [setError(setAllNodes(setJsonInput(a, a.activeTabId, <<>>), a.activeTabId, <<>>),
            a.activeTabId, Undef)
     EXCEPT !.searchQuery = <<>>]

handleToggle(a, nodeId) == setAllNodes(a, a.activeTabId, toggleNode(a.allNodes, nodeId))

handleExpandAll(a) == setAllNodes(a, a.activeTabId, expandAll(a.allNodes))

handleCollapseAll(a) == setAllNodes(a, a.activeTabId, collapseAll(a.allNodes))

handleNextMatch(a) ==
  IF Len(matchIds(a)) > 0
  THEN [a EXCEPT !.currentMatchIndex = (a.currentMatchIndex + 1) % Len(matchIds(a))]
  ELSE a

handlePreviousMatch(a) ==
  IF Len(matchIds(a)) > 0
  THEN [a EXCEPT !.currentMatchIndex =
                   (a.currentMatchIndex - 1 + Len(matchIds(a))) % Len(matchIds(a))]
  ELSE a

\* Variant of searchEffect: the expansion is also scheduled when only the
\* node list changed.
searchEffectOnEveryList(a, searchQuery, allNodes) ==
  IF trim(searchQuery) # <<>>
  THEN LET ms == searchNodes(allNodes, searchQuery)
       IN [a EXCEPT !.searchMatches = ms, !.matchesFresh = TRUE,
                    !.currentMatchIndex = IF a.lastSearchQueryRef # searchQuery
                                          THEN (IF ms # <<>> THEN 0 ELSE -1)
                                          ELSE a.currentMatchIndex,
                    !.isExpandingRef = FALSE,
                    !.pendingScrollRef = NoId,
                    !.expansionTimer = IF ms # <<>>
                                       THEN [armed |-> TRUE, nodes |-> allNodes, matchIds |-> ms]
                                       ELSE NoTimer,
                    !.lastSearchQueryRef = searchQuery]
  ELSE [a EXCEPT !.searchMatches = <<>>, !.matchesFresh = TRUE,
                 !.currentMatchIndex = -1, !.lastSearchQueryRef = <<>>]

\* The body of the search effect for the searchQuery and allNodes of a render.
searchEffect(a, searchQuery, allNodes) ==
  IF trim(searchQuery) # <<>>
  THEN LET ms == searchNodes(allNodes, searchQuery)
           b == [a EXCEPT !.searchMatches = ms, !.matchesFresh = TRUE]
           c == IF a.lastSearchQueryRef # searchQuery
                THEN [b EXCEPT !.currentMatchIndex = IF ms # <<>> THEN 0 ELSE -1,
                               !.isExpandingRef = FALSE,
                               !.pendingScrollRef = NoId,
                               !.expansionTimer =
                                 IF ms # <<>>
                                 THEN [armed |-> TRUE, nodes |-> allNodes, matchIds |-> ms]
                                 ELSE NoTimer]
                ELSE b
       IN [c EXCEPT !.lastSearchQueryRef = searchQuery]
  ELSE [a EXCEPT !.searchMatches = <<>>, !.matchesFresh = TRUE,
                 !.currentMatchIndex = -1, !.lastSearchQueryRef = <<>>]

(* Renders and effects.  After a handler React renders with the new state  *)
(* and runs, in the order of the hooks, the effects whose dependencies     *)
(* differ from those of the last render: first their cleanups, then their  *)
(* bodies, which see the values of that render; when a body changed the    *)
(* state, React renders again.                                             *)

\* clearTimeout(debounceTimerRef.current): the timer the ref names is the one
\* marked current.
clearDebounceTimer(a) ==
  LET other(t) == ~t.current
  IN [a EXCEPT !.debounceTimer = SelectSeq(a.debounceTimer, other)]

\* The body of the auto-format effect for the render r: the timer it sets
\* calls that render's parseInput with that render's jsonInput;
\* debounceCleanup tells whether the run returned a cleanup.
autoFormatEffect(a, r) ==
  IF a.mountParseRef THEN [a EXCEPT !.debounceCleanup = FALSE]
  ELSE LET b == clearDebounceTimer(a)
       IN IF trim(r.jsonInput) = <<>> THEN [b EXCEPT !.debounceCleanup = FALSE]
          ELSE [b EXCEPT !.debounceTimer =
                           Append([i \in 1..Len(b.debounceTimer) |->
                                     [b.debounceTimer[i] EXCEPT !.current = FALSE]],
                                  [text |-> r.jsonInput, formatType |-> r.formatType,
                                   tab |-> r.parseInputTab, current |-> TRUE]),
                         !.debounceCleanup = TRUE]

\* The body of the scroll-to-current-match effect for the render r, in the
\* tree mode.
scrollEffect(a, r) ==
  IF r.currentMatchIndex >= 0 /\ Len(matchIds(r)) > 0
     /\ r.currentMatchIndex < Len(matchIds(r))
  THEN LET currentMatchId == matchIds(r)[r.currentMatchIndex + 1]
       IN IF a.isExpandingRef THEN [a EXCEPT !.pendingScrollRef = currentMatchId]
          ELSE IF treeRef(r) THEN [a EXCEPT !.scrolled = Append(a.scrolled, currentMatchId)]
          ELSE a
  ELSE a

\* The state a render depends on.
StateOf(a) == <<a.tabs, a.activeTabId, a.jsonInput, a.allNodes, a.error, a.formatType,
                a.isProcessing, a.searchQuery, a.searchMatches, a.currentMatchIndex>>

\* A render after the render o: it reads currentSessionIdRef.current and
\* makes parseInput anew when formatType or currentSessionId differ.
Render(o, n) ==
  [n EXCEPT !.currentSessionId = n.currentSessionIdRef,
            !.parseInputTab = IF o.formatType # n.formatType
                                 \/ o.currentSessionId # n.currentSessionIdRef
                              THEN n.activeTabId
                              ELSE o.parseInputTab]

\* The effects of the render r that follows the render o.
Effects(o, r) ==
  LET tabChanged == activeTabDeps(o) # activeTabDeps(r)
      workerChanged == o.activeTabId # r.activeTabId \/ o.formatType # r.formatType
      debounceChanged == <<o.jsonInput, o.formatType, o.currentSessionId>>
                           # <<r.jsonInput, r.formatType, r.currentSessionId>>
      mountChanged == Len(o.tabs) # Len(r.tabs)
      searchChanged == o.searchQuery # r.searchQuery \/ o.allNodes # r.allNodes
      \* setSearchMatches is given a new Set each time, which makes matchIds anew
      scrollChanged == \/ o.currentMatchIndex # r.currentMatchIndex
                       \/ o.allNodes # r.allNodes \/ r.matchesFresh
                       \/ o.searchQuery # r.searchQuery
                       \/ formattedCode(o) # formattedCode(r)
      \* cleanups: worker.terminate(), clearTimeout, mountParseRef.current = false
      c0 == [r EXCEPT !.matchesFresh = FALSE]
      c1 == IF workerChanged THEN [c0 EXCEPT !.inflight = <<>>] ELSE c0
      c2 == IF debounceChanged /\ c1.debounceCleanup THEN clearDebounceTimer(c1) ELSE c1
      c3 == IF mountChanged THEN [c2 EXCEPT !.mountParseRef = FALSE] ELSE c2
      \* bodies
      s1 == IF tabChanged /\ HasTab(r, r.activeTabId)
            THEN [c3 EXCEPT !.jsonInput = activeTab(r).content,
                            !.allNodes = activeTab(r).nodes,
                            !.error = activeTab(r).error,
                            !.formatType = activeTab(r).formatType,
                            !.currentSessionIdRef = activeTab(r).sessionId]
            ELSE c3
      s2 == IF debounceChanged THEN autoFormatEffect(s1, r) ELSE s1
      s3 == IF mountChanged /\ r.jsonInput # <<>> /\ trim(r.jsonInput) # <<>> /\ Len(r.tabs) > 0
            THEN parseInput([s2 EXCEPT !.mountParseRef = TRUE],
                            r.formatType, r.parseInputTab, r.jsonInput)
            ELSE s2
      s4 == IF searchChanged THEN searchEffect(s3, r.searchQuery, r.allNodes) ELSE s3
  IN IF scrollChanged THEN scrollEffect(s4, r) ELSE s4

\* The renders a handler's result n sets off; o is the last render before it.
\* Each render and its effects are computed once and then passed on.
RECURSIVE Commit(_, _, _)
Settle(o, r, e, fuel) ==
  IF fuel = 0 \/ (StateOf(e) = StateOf(r) /\ activeTabDeps(o) = activeTabDeps(r)
                   /\ ~e.matchesFresh)
  THEN e
  ELSE Commit(r, e, fuel - 1)

Commit(o, n, fuel) ==
  CHOOSE a \in {Settle(o, re[1], re[2], fuel) :
                  re \in {<<r, Effects(o, r)>> : r \in {Render(o, n)}}} : TRUE

-----------------------------------------------------------------------------
(* The state machines.  nodes is the current node list, prev the list the  *)
(* last operation was applied to, op the last operation and its arguments, *)
(* input the document waiting to be built.                                 *)

Queries == {<<"x">>, <<"a">>, <<"1">>}

\* No ParseResult error, and a worker that has received no message yet.
WorkerIdle ==
  /\ error = Undef
  /\ requests = <<>>
  /\ handled = 0
  /\ outbox = <<>>

Op(name, id, query) == [name |-> name, id |-> id, query |-> query]

NoInput == [format |-> "none"]

Apply(name, id, query, result) ==
  /\ nodes' = result
  /\ prev' = nodes
  /\ op' = Op(name, id, query)
  /\ UNCHANGED <<input, matches, nodeIdCounter, xmlNodeIdCounter, workerVars, appVars>>

(* Builds: a parsed document is handed to one of the three builders. *)

InitBuild ==
  /\ input \in {[format |-> "json", doc |-> d] : d \in Docs}
               \cup {[format |-> "xml", doc |-> d] : d \in XmlDocs}
  /\ nodes = <<>>
  /\ prev = <<>>
  /\ op = Op("input", NoId, <<>>)
  /\ matches = <<>>
  /\ nodeIdCounter = 0
  /\ xmlNodeIdCounter = 0
  /\ WorkerIdle
  /\ AppIdle

\* A build: the nodes returned, the counters of the two parser modules after it.
Built(name, doc, result, jsonCtr, xmlCtr) ==
  /\ input' = doc
  /\ nodes' = result
  /\ prev' = nodes
  /\ op' = Op(name, NoId, <<>>)
  /\ nodeIdCounter' = jsonCtr
  /\ xmlNodeIdCounter' = xmlCtr
  /\ UNCHANGED <<matches, workerVars, appVars>>

ParseJsonToTree ==
  /\ op.name = "input" /\ input.format = "json"
  /\ LET run == parseJsonToTreeRun(nodeIdCounter, input.doc)
     IN Built("parseJsonToTree", input, run.nodes, run.nodeIdCounter, xmlNodeIdCounter)

WorkerParseJson ==
  /\ op.name = "input" /\ input.format = "json"
  /\ Built("workerParseJson", input, workerParseJson(input.doc), nodeIdCounter, xmlNodeIdCounter)

ParseXmlToTree ==
  /\ op.name = "input" /\ input.format = "xml"
  /\ LET run == parseXmlToTreeRun(xmlNodeIdCounter, input.doc)
     IN Built("parseXmlToTree", input, run.nodes, nodeIdCounter, run.nodeIdCounter)

NextBuild ==
  \/ ParseJsonToTree
  \/ WorkerParseJson
  \/ ParseXmlToTree

SpecBuild == InitBuild /\ [][NextBuild]_vars

(* Operations on a built node list. *)

BuiltLists ==
  {parseJsonToTree(d) : d \in OpDocs}
  \cup {workerParseJson(d) : d \in OpDocs}
  \cup {parseXmlToTree(d) : d \in OpXmlDocs}

\* Ids offered to toggleNode and expandToNode: every id of the list and one unknown id.
IdArgs == 0..Len(nodes)

Init ==
  /\ input = NoInput
  /\ nodes \in BuiltLists
  /\ prev = nodes
  /\ op = Op("build", NoId, <<>>)
  /\ matches = <<>>
  /\ nodeIdCounter = 0
  /\ xmlNodeIdCounter = 0
  /\ WorkerIdle
  /\ AppIdle

ToggleNode == \E id \in IdArgs : Apply("toggleNode", id, <<>>, toggleNode(nodes, id))

ExpandAll == Apply("expandAll", NoId, <<>>, expandAll(nodes))

CollapseAll == Apply("collapseAll", NoId, <<>>, collapseAll(nodes))

ExpandToNode == \E id \in IdArgs : Apply("expandToNode", id, <<>>, expandToNode(nodes, id))

ExpandToMatches ==
  \E q \in Queries : Apply("expandToMatches", NoId, q, expandToMatches(nodes, searchNodes(nodes, q)))

WorkerExpandToMatches ==
  \E q \in Queries :
    Apply("workerExpandToMatches", NoId, q, workerExpandToMatches(nodes, searchNodes(nodes, q)))

Next ==
  \/ ToggleNode
  \/ ExpandAll
  \/ CollapseAll
  \/ ExpandToNode
  \/ ExpandToMatches
  \/ WorkerExpandToMatches

Spec == Init /\ [][Next]_vars

(* Rebuilds: documents are built one after the other by the three builders, *)
(* the two parser modules keeping their counters between the builds.        *)

\* Largest number of JSON values or DOM nodes in a document that is rebuilt.
MaxRebuildNodes == 3

RebuildKeys == {<<"a">>}

RebuildDocs == UNION {JValues(n, RebuildKeys, OpScalars, TRUE) : n \in 1..MaxRebuildNodes}

RebuildXmlDocs == UNION {XElems(n, OpTags, {}) : n \in 1..MaxRebuildNodes}

InitRebuild ==
  /\ input = NoInput
  /\ nodes = <<>>
  /\ prev = <<>>
  /\ op = Op("load", NoId, <<>>)
  /\ matches = <<>>
  /\ nodeIdCounter = 0
  /\ xmlNodeIdCounter = 0
  /\ WorkerIdle
  /\ AppIdle

RebuildJson ==
  \E d \in RebuildDocs :
    LET run == parseJsonToTreeRun(nodeIdCounter, d)
    IN Built("parseJsonToTree", [format |-> "json", doc |-> d],
             run.nodes, run.nodeIdCounter, xmlNodeIdCounter)

RebuildWorker ==
  \E d \in RebuildDocs :
    Built("workerParseJson", [format |-> "json", doc |-> d],
          workerParseJson(d), nodeIdCounter, xmlNodeIdCounter)

RebuildXml ==
  \E d \in RebuildXmlDocs :
    LET run == parseXmlToTreeRun(xmlNodeIdCounter, d)
    IN Built("parseXmlToTree", [format |-> "xml", doc |-> d],
             run.nodes, nodeIdCounter, run.nodeIdCounter)

NextRebuild ==
  \/ RebuildJson
  \/ RebuildWorker
  \/ RebuildXml

SpecRebuild == InitRebuild /\ [][NextRebuild]_vars

(* Texts: a text is parsed on the main thread or posted to the worker, which *)
(* handles the posted messages one at a time in the order of their arrival. *)

\* Largest number of messages posted to the worker.
MaxRequests == 2

Request(type, data) == [type |-> type, data |-> data]

\* The node lists and match ids sent with EXPAND_TO_MATCHES, and data that is
\* not an object.
ExpandData ==
  {[nodes |-> workerParseJson(JArr(<<JNum(Num(1, 0))>>)), matchIds |-> ids] : ids \in {<<>>, <<1>>}}
  \cup {[undef |-> TRUE]}

InitWorker ==
  /\ input = NoInput
  /\ nodes = <<>>
  /\ prev = <<>>
  /\ op = Op("load", NoId, <<>>)
  /\ matches = <<>>
  /\ nodeIdCounter = 0
  /\ xmlNodeIdCounter = 0
  /\ WorkerIdle
  /\ AppIdle

\* parseJsonToTree(jsonString) on the main thread.
ParseJsonText ==
  \E t \in JsonTexts :
    LET result == parseJsonToTreeText(nodeIdCounter, t)
    IN /\ input' = [format |-> "text", text |-> t]
       /\ nodes' = result.nodes
       /\ error' = result.error
       /\ nodeIdCounter' = result.nodeIdCounter
       /\ op' = Op("parseJsonToTree", NoId, <<>>)
       /\ UNCHANGED <<prev, matches, xmlNodeIdCounter, requests, handled, outbox, appVars>>

Post(request) ==
  /\ Len(requests) < MaxRequests
  /\ requests' = Append(requests, request)
  /\ UNCHANGED <<input, nodes, prev, op, matches, nodeIdCounter, xmlNodeIdCounter,
                 error, handled, outbox, appVars>>

\* useWebWorker.parseJson(input)
PostParseJson == \E t \in JsonTexts : Post(Request("PARSE_JSON", t))

\* useWebWorker.expandToMatches(nodes, matchIds), or a message with other data
PostExpandToMatches == \E d \in ExpandData : Post(Request("EXPAND_TO_MATCHES", d))

\* A message of a type the worker does not know.
PostOther == Post(Request("PARSE_XML", <<>>))

\* self.onmessage runs for the oldest message not handled yet; each message it
\* posts is tagged with the position of the request it answers.
WorkerOnMessage ==
  /\ handled < Len(requests)
  /\ LET request == requests[handled + 1]
     IN \E timed \in 0..BuildCalls(request) :
          LET posted == workerOnMessage(request, timed)
          IN outbox' = outbox \o [i \in 1..Len(posted) |-> [req |-> handled + 1, msg |-> posted[i]]]
  /\ handled' = handled + 1
  /\ UNCHANGED <<input, nodes, prev, op, matches, nodeIdCounter, xmlNodeIdCounter,
                 error, requests, appVars>>

NextWorker ==
  \/ ParseJsonText
  \/ PostParseJson
  \/ PostExpandToMatches
  \/ PostOther
  \/ WorkerOnMessage

SpecWorker == InitWorker /\ [][NextWorker]_vars

(* Search: searchNodes applied to built lists in every expansion state. *)

\* Largest number of JSON values in a document that is searched.
MaxSearchNodes == 3

SearchKeys == {<<"a">>, <<"A">>}

\* 1e21 is the smallest number String() writes with an exponent.
SearchScalars == {JNull, JStr(<<"x">>), JStr(<<"X">>), JNum(Num(1, 0)), JNum(Num(1, 21)), JBool(TRUE)}

SearchDocs == UNION {JValues(n, SearchKeys, SearchScalars, TRUE) : n \in 1..MaxSearchNodes}

SearchLists == {parseJsonToTree(d) : d \in SearchDocs} \cup {workerParseJson(d) : d \in SearchDocs}

SearchQueries == {<<>>, <<" ">>, <<" ", " ">>, <<"\t">>,
                  <<"a">>, <<"A">>, <<"x">>, <<"X">>, <<"1">>, <<"e">>, <<"E">>,
                  <<"t", "r">>, <<"n", "u">>, <<"r", "O">>, <<"0">>}

InitSearch ==
  /\ input = NoInput
  /\ nodes \in SearchLists
  /\ prev = nodes
  /\ op = Op("build", NoId, <<>>)
  /\ matches = <<>>
  /\ nodeIdCounter = 0
  /\ xmlNodeIdCounter = 0
  /\ WorkerIdle
  /\ AppIdle

SearchNodes ==
  \E q \in SearchQueries :
    /\ matches' = searchNodes(nodes, q)
    /\ op' = Op("searchNodes", NoId, q)
    /\ UNCHANGED <<input, nodes, prev, nodeIdCounter, xmlNodeIdCounter, workerVars, appVars>>

NextSearch ==
  \/ SearchNodes
  \/ ToggleNode
  \/ ExpandAll
  \/ CollapseAll

SpecSearch == InitSearch /\ [][NextSearch]_vars

(* The tab manager alone, as renderHook(() => useTabManager()) runs it: a  *)
(* call of createNewTab, closeTab or setActiveTabId, then the effect that  *)
(* syncs the active tab when its dependencies changed.                     *)

\* Largest number of open tabs and of tab ids handed out.
MaxTabs == 3
MaxTabIds == 5

\* Every variable but app and history keeps the value it has when no document
\* has been loaded.
EngineIdle ==
  /\ input = NoInput
  /\ nodes = <<>>
  /\ prev = <<>>
  /\ op = Op("load", NoId, <<>>)
  /\ matches = <<>>
  /\ nodeIdCounter = 0
  /\ xmlNodeIdCounter = 0
  /\ WorkerIdle

engineVars == <<input, nodes, prev, op, matches, nodeIdCounter, xmlNodeIdCounter, workerVars>>

InitTabs ==
  /\ EngineIdle
  /\ app = BlankApp
  /\ history = EmptyHistory

\* The render after a call of the hook, and its effect.
TabCommit(o, n) == IF activeTabDeps(o) # activeTabDeps(n) THEN syncActiveTab(n) ELSE n

TabStep(name, tabId, result) ==
  /\ app' = [TabCommit(app, result) EXCEPT
               !.lastOp = LastOp(name, tabId, findIndex(app.tabs, tabId),
                                 app.activeTabId = tabId)]
  /\ UNCHANGED <<engineVars, history>>

CreateNewTab ==
  /\ Len(app.tabs) < MaxTabs
  /\ app.nextId <= MaxTabIds
  /\ \E formatType \in {"json", "xml"} :
       TabStep("createNewTab", app.nextId, createNewTab(app, formatType))

\* closeTab of a tab of the list
CloseTab ==
  /\ app.nextId <= MaxTabIds
  /\ \E i \in 1..Len(app.tabs) :
       TabStep("closeTab", app.tabs[i].id, closeTab(app, app.tabs[i].id))

\* setActiveTabId of a tab of the list
SetActiveTabId ==
  \E i \in 1..Len(app.tabs) :
    TabStep("setActiveTabId", app.tabs[i].id, setActiveTabId(app, app.tabs[i].id))

NextTabs ==
  \/ CreateNewTab
  \/ CloseTab
  \/ SetActiveTabId

SpecTabs == InitTabs /\ [][NextTabs]_vars

(* The history store under saveToHistory calls; each call runs in one      *)
(* readwrite transaction on the store, and such transactions are run one   *)
(* after the other.                                                        *)

\* Largest number of entries added and latest time on the clock.
MaxEntries == 3
MaxClock == 3

SavedTexts == {<<"[", "]">>, <<" ", "[", "1", "]">>}

SessionIds == {NoId, 1, 2}

InitHistory ==
  /\ EngineIdle
  /\ app = BlankApp
  /\ history = EmptyHistory

\* A call of saveToHistory after the clock has gone on by 0 or 1.
SaveToHistory ==
  \E content \in SavedTexts, formatType \in {"json", "xml"}, sessionId \in SessionIds,
     tick \in {0, 1} :
    /\ history.nextId <= MaxEntries
    /\ history.now + tick <= MaxClock
    /\ history' = [saveToHistory([history EXCEPT !.now = history.now + tick],
                                 content, formatType, sessionId)
                     EXCEPT !.lastCall = [content |-> content, formatType |-> formatType,
                                          sessionId |-> sessionId]]
    /\ UNCHANGED <<engineVars, app>>

NextHistory == SaveToHistory

SpecHistory == InitHistory /\ [][NextHistory]_vars

(* The orchestration layer: the user's actions on the page, and the timers, *)
(* the file reader and the worker answering.  A control that the page      *)
(* disables while isProcessing is set cannot be used then; inputs longer   *)
(* than 100 000 characters, which get a different input control, are not   *)
(* among the texts.  Each action is one handler together with the renders  *)
(* and effects it sets off.                                                *)

\* Largest number of tabs, of tab ids made, of requests waiting for the worker,
\* and of renders one handler sets off.
MaxAppTabs == 2
MaxAppTabIds == 3
MaxInFlight == 2
MaxRenders == 4
MaxScrolls == 1
MaxExpands == 1

JsonDeep == <<"[", "[", "[", "1", "]", "]", "]">>

\* The texts typed or read from a file, and the search texts.
AppTexts == {<<" ">>, JsonDeep, XmlDeep}

AppQueries == {<<>>, <<"1">>}

\* The page after mounting: the init effect has made the first tab.
AppStart ==
  [Commit(BlankApp, createNewTab(BlankApp, "json"), MaxRenders)
     EXCEPT !.lastOp = LastOp("createNewTab", 1, NoId, FALSE)]

InitApp ==
  /\ EngineIdle
  /\ app = AppStart
  /\ history = EmptyHistory

\* The state a handler starts from.
Begin == [app EXCEPT !.saved = <<>>, !.parsed = <<>>, !.scrolled = <<>>]

AppStep(result, last) ==
  \E n \in {Commit(app, res, MaxRenders) : res \in {result}} :
    /\ Len(n.inflight) <= MaxInFlight
    /\ Len(n.scrollTimer) <= MaxScrolls
    /\ Expands(n) <= MaxExpands
    /\ app' = [n EXCEPT !.lastOp = last]
    /\ UNCHANGED <<engineVars, history>>

\* The user edits the text of the input area.
TypeInput ==
  /\ ~app.isProcessing
  /\ \E text \in AppTexts \ {app.jsonInput} :
       AppStep(setJsonInput(Begin, app.activeTabId, text),
               LastOp("setJsonInput", app.activeTabId, NoId, FALSE))

HandleFormat ==
  /\ ~app.isProcessing
  /\ AppStep(handleFormat(Begin), LastOp("handleFormat", app.activeTabId, NoId, FALSE))

HandleClear ==
  /\ ~app.isProcessing
  /\ AppStep(handleClear(Begin), LastOp("handleClear", app.activeTabId, NoId, FALSE))

HandleFormatChange ==
  /\ \E newFormat \in {"json", "xml"} :
       AppStep(handleFormatChange(Begin, newFormat),
               LastOp("handleFormatChange", app.activeTabId, NoId, FALSE))

HandleFileUpload ==
  /\ ~app.isProcessing
  /\ AppStep(handleFileUpload(Begin), LastOp("handleFileUpload", app.activeTabId, NoId, FALSE))

ReaderOnload ==
  /\ app.reader.pending
  /\ \E text \in AppTexts :
       AppStep(readerOnload(Begin, text), LastOp("readerOnload", app.reader.tab, NoId, FALSE))

ReaderOnerror ==
  /\ app.reader.pending
  /\ AppStep(readerOnerror(Begin), LastOp("readerOnerror", app.reader.tab, NoId, FALSE))

SetSearchQuery ==
  /\ ~app.isProcessing
  /\ \E q \in AppQueries \ {app.searchQuery} :
       AppStep([Begin EXCEPT !.searchQuery = q],
               LastOp("setSearchQuery", app.activeTabId, NoId, FALSE))

\* The search texts typed over a tree: nothing, a text that matches the
\* numbers and a text that matches every path.
TreeQueries == {<<>>, <<"1">>, <<"r">>}

SetTreeSearchQuery ==
  /\ ~app.isProcessing
  /\ \E q \in TreeQueries \ {app.searchQuery} :
       AppStep([Begin EXCEPT !.searchQuery = q],
               LastOp("setSearchQuery", app.activeTabId, NoId, FALSE))

\* The + button of the header: createNewTab('json')
AppNewTab ==
  /\ Len(app.tabs) < MaxAppTabs
  /\ app.nextId <= MaxAppTabIds
  /\ AppStep(createNewTab(Begin, "json"), LastOp("createNewTab", app.nextId, NoId, FALSE))

AppCloseTab ==
  /\ app.nextId <= MaxAppTabIds
  /\ \E i \in 1..Len(app.tabs) :
       AppStep(closeTab(Begin, app.tabs[i].id),
               LastOp("closeTab", app.tabs[i].id, i - 1, app.activeTabId = app.tabs[i].id))

AppSwitchTab ==
  /\ \E i \in 1..Len(app.tabs) :
       /\ app.tabs[i].id # app.activeTabId
       /\ AppStep(setActiveTabId(Begin, app.tabs[i].id),
                  LastOp("setActiveTabId", app.tabs[i].id, i - 1, FALSE))

\* The 800 ms timer of the auto-format effect fires.
DebounceFire ==
  \E i \in 1..Len(app.debounceTimer) :
    LET t == app.debounceTimer[i]
        rest == [j \in 1..(Len(app.debounceTimer) - 1) |->
                   app.debounceTimer[IF j < i THEN j ELSE j + 1]]
    IN AppStep(parseInput([Begin EXCEPT !.debounceTimer = rest], t.formatType, t.tab, t.text),
               LastOp("autoFormat", app.activeTabId, NoId, FALSE))

\* The 500 ms timer of the search effect fires.
ExpansionFire ==
  /\ app.expansionTimer.armed
  /\ AppStep(hookExpandToMatches([Begin EXCEPT !.expansionTimer = NoTimer,
                                               !.isExpandingRef = TRUE,
                                               !.pendingScrollRef =
                                                 app.expansionTimer.matchIds[1]],
                                 app.expansionTimer.nodes, app.expansionTimer.matchIds),
             LastOp("expandToMatches", app.activeTabId, NoId, FALSE))

\* The 50 ms timer set on EXPAND_SUCCESS fires: treeRef.current?.scrollToNode
ScrollFire ==
  /\ app.scrollTimer # <<>>
  /\ AppStep([Begin EXCEPT !.scrollTimer = Tail(app.scrollTimer),
                           !.scrolled = IF treeRef(app) THEN <<Head(app.scrollTimer)>>
                                        ELSE <<>>],
             LastOp("scrollToNode", Head(app.scrollTimer), NoId, FALSE))

\* A click on the expand icon of a row of the tree.
HandleToggle ==
  /\ treeRef(app)
  /\ \E i \in 1..Len(getVisibleNodes(app.allNodes)) :
       /\ getVisibleNodes(app.allNodes)[i].hasChildren
       /\ AppStep(handleToggle(Begin, getVisibleNodes(app.allNodes)[i].id),
                  LastOp("handleToggle", getVisibleNodes(app.allNodes)[i].id, NoId, FALSE))

HandleExpandAll ==
  /\ ~app.isProcessing
  /\ AppStep(handleExpandAll(Begin), LastOp("handleExpandAll", app.activeTabId, NoId, FALSE))

HandleCollapseAll ==
  /\ ~app.isProcessing
  /\ AppStep(handleCollapseAll(Begin),
             LastOp("handleCollapseAll", app.activeTabId, NoId, FALSE))

\* The buttons next to the search box, shown while there are matches, and the
\* Enter key in the search box.
HandleNextMatch ==
  /\ Len(matchIds(app)) > 0 \/ ~app.isProcessing
  /\ AppStep(handleNextMatch(Begin), LastOp("handleNextMatch", app.activeTabId, NoId, FALSE))

HandlePreviousMatch ==
  /\ Len(matchIds(app)) > 0 \/ ~app.isProcessing
  /\ AppStep(handlePreviousMatch(Begin),
             LastOp("handlePreviousMatch", app.activeTabId, NoId, FALSE))

\* The 100 ms timer of the parse-on-mount effect fires.
MountParseReset ==
  /\ app.mountParseRef
  /\ AppStep([Begin EXCEPT !.mountParseRef = FALSE],
             LastOp("mountParseReset", app.activeTabId, NoId, FALSE))

\* A PARSE_JSON request waiting behind the oldest one.
Superseded == \E i \in 2..Len(app.inflight) : app.inflight[i].type = "PARSE_JSON"

\* The worker handles its oldest request and the page receives the result.
WorkerAnswer ==
  /\ app.inflight # <<>>
  /\ LET request == Head(app.inflight)
         posted == workerOnMessage(request, 0)
         msg == posted[Len(posted)]
         a == [Begin EXCEPT !.inflight = Tail(app.inflight)]
         b == IF request.type = "PARSE_JSON"
              THEN [a EXCEPT !.parsed = <<ParseOutcome(request.data, "json",
                                                       msg.type = "PARSE_SUCCESS")>>]
              ELSE a
     IN AppStep(workerRefOnMessage(b, msg),
                LastOp(msg.type, app.activeTabId, NoId,
                       request.type = "PARSE_JSON" /\ Superseded))

\* One tab: its text, its format, the Format, Clear and Load buttons.
NextApp ==
  \/ TypeInput
  \/ HandleFormat
  \/ HandleClear
  \/ HandleFormatChange
  \/ HandleFileUpload
  \/ ReaderOnload
  \/ ReaderOnerror
  \/ DebounceFire
  \/ MountParseReset
  \/ WorkerAnswer

SpecApp == InitApp /\ [][NextApp]_vars

\* Several tabs holding the samples or nothing; the timers fire and the worker
\* answers every request it has.
NextAppTabs ==
  \/ HandleFormat
  \/ HandleClear
  \/ HandleFormatChange
  \/ AppNewTab
  \/ AppCloseTab
  \/ AppSwitchTab
  \/ DebounceFire
  \/ MountParseReset
  \/ WorkerAnswer

SpecAppTabs ==
  /\ InitApp
  /\ [][NextAppTabs]_vars
  /\ WF_vars(DebounceFire)
  /\ WF_vars(MountParseReset)
  /\ WF_vars(WorkerAnswer)

\* One tab that is searched; the timers fire and the worker answers every
\* request it has.
NextAppSearch ==
  \/ TypeInput
  \/ HandleFormatChange
  \/ SetSearchQuery
  \/ DebounceFire
  \/ ExpansionFire
  \/ ScrollFire
  \/ MountParseReset
  \/ WorkerAnswer

SpecAppSearch ==
  /\ InitApp
  /\ [][NextAppSearch]_vars
  /\ WF_vars(DebounceFire)
  /\ WF_vars(ExpansionFire)
  /\ WF_vars(ScrollFire)
  /\ WF_vars(MountParseReset)
  /\ WF_vars(WorkerAnswer)

\* One tab whose tree is searched, walked through and folded; the timers fire
\* and the worker answers every request it has.
NextAppTree ==
  \/ SetTreeSearchQuery
  \/ HandleToggle
  \/ HandleExpandAll
  \/ HandleCollapseAll
  \/ ExpansionFire
  \/ ScrollFire
  \/ MountParseReset
  \/ WorkerAnswer

SpecAppTree ==
  /\ InitApp
  /\ [][NextAppTree]_vars
  /\ WF_vars(ExpansionFire)
  /\ WF_vars(ScrollFire)
  /\ WF_vars(MountParseReset)
  /\ WF_vars(WorkerAnswer)

\* One tab whose text is edited or cleared while the matches of a search are
\* walked through; the timers fire and the worker answers every request it has.
NextAppMatches ==
  \/ TypeInput
  \/ HandleClear
  \/ SetSearchQuery
  \/ HandleNextMatch
  \/ HandlePreviousMatch
  \/ DebounceFire
  \/ ExpansionFire
  \/ ScrollFire
  \/ MountParseReset
  \/ WorkerAnswer

SpecAppMatches ==
  /\ InitApp
  /\ [][NextAppMatches]_vars
  /\ WF_vars(DebounceFire)
  /\ WF_vars(ExpansionFire)
  /\ WF_vars(ScrollFire)
  /\ WF_vars(MountParseReset)
  /\ WF_vars(WorkerAnswer)

-----------------------------------------------------------------------------
(* Tree relations used to state the properties. *)

BuildOps == {"parseJsonToTree", "workerParseJson", "parseXmlToTree"}

MutationOps == {"toggleNode", "expandAll", "collapseAll", "expandToNode",
                "expandToMatches", "workerExpandToMatches"}

IndexOf(ns, id) == CHOOSE i \in 1..Len(ns) : ns[i].id = id

RECURSIVE AncestorIds(_, _)
\* The ids of the proper ancestors of ns[i] along the parent chain.
AncestorIds(ns, i) ==
  LET p == ns[i].parent
  IN IF p = NoId \/ p \notin Ids(ns) THEN {}
     ELSE {p} \cup AncestorIds(ns, IndexOf(ns, p))

\* ns is a pre-order flattening of a tree.
PreOrder(ns) ==
  /\ ns # <<>>
  /\ ns[1].parent = NoId /\ ns[1].depth = 0
  /\ \A i \in 2..Len(ns) :
       /\ ns[i].parent # NoId /\ ns[i].depth # 0
       /\ \E j \in 1..(i - 1) : ns[j].id = ns[i].parent /\ ns[i].depth = ns[j].depth + 1
  /\ \A i \in 1..Len(ns) : \A j \in (i + 1)..Len(ns) :
       (\A k \in (i + 1)..j : ns[k].depth > ns[i].depth) <=> ns[i].id \in AncestorIds(ns, j)

-----------------------------------------------------------------------------
(* Properties. *)

\* C1: in every node list reachable from a build by the mutation operators, a
\* node is in getVisibleNodes(nodes) iff every ancestor along its parent chain
\* has isExpanded = true; the root is always in the result.
VisibilityCorrect ==
  LET visible == getVisibleNodes(nodes)
  IN /\ \A i \in 1..Len(nodes) :
          (nodes[i] \in Range(visible))
            <=> (\A a \in AncestorIds(nodes, i) : nodes[IndexOf(nodes, a)].isExpanded)
     /\ \A i \in 1..Len(nodes) : nodes[i].parent = NoId => nodes[i] \in Range(visible)

\* A toggle left a node at depth 3 hidden behind a collapsed grandparent although
\* its own parent is expanded, while the root stays visible.
VisibilityWitness ==
  /\ op.name = "toggleNode"
  /\ \E i \in 1..Len(nodes) :
       /\ nodes[i].depth = 3
       /\ nodes[IndexOf(nodes, nodes[i].parent)].isExpanded
       /\ \E a \in AncestorIds(nodes, i) : ~nodes[IndexOf(nodes, a)].isExpanded
       /\ nodes[i] \notin Range(getVisibleNodes(nodes))
       /\ nodes[1] \in Range(getVisibleNodes(nodes))

\* C2: the node list of every build (parseJsonToTree, worker PARSE_JSON, XML
\* builder) is a pre-order flattening: only the first node has no parent and
\* depth 0, every other node's parent is earlier and one level shallower, and
\* the nodes between a node and the next node of the same or shallower depth
\* are exactly its descendants.
BuildIsPreOrder == op.name \in BuildOps => PreOrder(nodes)

\* The worker built a list in which the subtree of the second node is followed
\* by a sibling of that node.
BuildIsPreOrderWitness ==
  /\ op.name = "workerParseJson"
  /\ Len(nodes) = 4
  /\ nodes[2].hasChildren /\ nodes[3].parent = nodes[2].id
  /\ nodes[4].depth = 1

\* C3: after expandToMatches(nodes, searchNodes(nodes, q)), and after the
\* worker's EXPAND_TO_MATCHES with the same match ids, every matched node is in
\* getVisibleNodes of the returned list.
MatchesRevealed ==
  op.name \in {"expandToMatches", "workerExpandToMatches"} =>
    \A id \in Range(searchNodes(prev, op.query)) :
      nodes[IndexOf(nodes, id)] \in Range(getVisibleNodes(nodes))

\* The targets of the last ancestor-expansion operation.
Targets ==
  IF op.name = "expandToNode" THEN {op.id} \cap Ids(prev)
  ELSE Range(searchNodes(prev, op.query))

\* C4: expandToNode, expandToMatches and the worker's EXPAND_TO_MATCHES change
\* isExpanded only on proper ancestors (by parent chain) of a target.
OnlyAncestorsExpanded ==
  op.name \in {"expandToNode", "expandToMatches", "workerExpandToMatches"} =>
    \A i \in 1..Len(prev) :
      nodes[i].isExpanded # prev[i].isExpanded =>
        \E t \in Targets : prev[i].id \in AncestorIds(prev, IndexOf(prev, t))

\* C5: toggleNode(nodes, id) flips isExpanded on the node with that id only
\* when it has children, is a no-op for a leaf or an unknown id, and leaves
\* every other node, its descendants included, as it was.
ToggleFrame ==
  op.name = "toggleNode" =>
    /\ Len(nodes) = Len(prev)
    /\ \A i \in 1..Len(prev) :
         IF prev[i].id = op.id /\ prev[i].hasChildren
         THEN nodes[i] = [prev[i] EXCEPT !.isExpanded = ~prev[i].isExpanded]
         ELSE nodes[i] = prev[i]
    /\ (op.id \notin Ids(prev) \/ ~prev[IndexOf(prev, op.id)].hasChildren) => nodes = prev

\* A toggle collapsed a node whose expanded descendant container stays expanded.
ToggleFrameWitness ==
  /\ op.name = "toggleNode"
  /\ \E i, j \in 1..Len(prev) :
       /\ prev[i].id = op.id /\ prev[i].hasChildren
       /\ prev[i].isExpanded /\ ~nodes[i].isExpanded
       /\ prev[i].id \in AncestorIds(prev, j)
       /\ prev[j].hasChildren /\ prev[j].isExpanded /\ nodes[j].isExpanded

\* C6: for a node with children, toggling it twice gives back the list, field
\* by field, and so the same visible list (nodes = toggleNode(prev, op.id)).
ToggleTwice ==
  (op.name = "toggleNode" /\ \E i \in 1..Len(prev) : prev[i].id = op.id /\ prev[i].hasChildren) =>
    /\ toggleNode(nodes, op.id) = prev
    /\ getVisibleNodes(toggleNode(nodes, op.id)) = getVisibleNodes(prev)

\* A toggle collapsed a node and hid part of the list; the second toggle restores it.
ToggleTwiceWitness ==
  /\ op.name = "toggleNode"
  /\ \E i \in 1..Len(prev) : prev[i].id = op.id /\ prev[i].hasChildren /\ prev[i].isExpanded
  /\ Len(getVisibleNodes(nodes)) < Len(getVisibleNodes(prev))
  /\ toggleNode(nodes, op.id) = prev

\* ns with the expansion flags v.
WithFlags(ns, v) == [i \in 1..Len(ns) |-> [ns[i] EXCEPT !.isExpanded = v[i]]]

\* C7: after expandAll every node with children is expanded, after collapseAll
\* every such node is collapsed, and the result is the same from every
\* expansion state of the same document.
ExpandCollapseAllCoverage ==
  /\ op.name = "expandAll" =>
       /\ \A i \in 1..Len(nodes) : nodes[i].hasChildren => nodes[i].isExpanded
       /\ \A v \in [1..Len(prev) -> BOOLEAN] : expandAll(WithFlags(prev, v)) = nodes
  /\ op.name = "collapseAll" =>
       /\ \A i \in 1..Len(nodes) : nodes[i].hasChildren => ~nodes[i].isExpanded
       /\ \A v \in [1..Len(prev) -> BOOLEAN] : collapseAll(WithFlags(prev, v)) = nodes

\* expandAll was applied to a list with one container collapsed and another expanded.
ExpandCollapseAllWitness ==
  /\ op.name = "expandAll"
  /\ \E i, j \in 1..Len(prev) :
       /\ prev[i].hasChildren /\ ~prev[i].isExpanded
       /\ prev[j].hasChildren /\ prev[j].isExpanded

\* C8: no operation on the node list changes isExpanded of a node without children.
LeavesUntouched ==
  op.name \in MutationOps =>
    \A i \in 1..Len(prev) : ~prev[i].hasChildren => nodes[i].isExpanded = prev[i].isExpanded

\* C9: every mutation operator returns the same nodes in the same order, equal
\* in every field but isExpanded, so the list stays a pre-order flattening.
StructurePreserved ==
  /\ op.name \in MutationOps =>
       /\ Len(nodes) = Len(prev)
       /\ \A i \in 1..Len(prev) : [nodes[i] EXCEPT !.isExpanded = prev[i].isExpanded] = prev[i]
  /\ PreOrder(nodes)

\* The worker's expansion changed the flags of a list of four nodes.
StructurePreservedWitness ==
  /\ op.name = "workerExpandToMatches"
  /\ Len(nodes) = 4
  /\ nodes # prev

\* C10: immediately after a build every node has isExpanded = (hasChildren and depth < 2).
AutoExpandRule ==
  op.name \in BuildOps =>
    \A i \in 1..Len(nodes) : nodes[i].isExpanded = (nodes[i].hasChildren /\ nodes[i].depth < 2)

\* C10, amended: immediately after a build every node has isExpanded = (the node
\* is a container (object, array, XML element) and depth < 2), whether or not
\* the container has children; scalar leaves and nodes at depth >= 2 are not expanded.
AutoExpandContainers ==
  op.name \in BuildOps =>
    \A i \in 1..Len(nodes) :
      nodes[i].isExpanded = (nodes[i].type \in {"object", "array"} /\ nodes[i].depth < 2)

\* A build produced an expanded empty container at depth 1 next to an expanded
\* container with children, and a scalar leaf that is not expanded.
AutoExpandWitness ==
  /\ op.name \in BuildOps
  /\ \E i \in 1..Len(nodes) :
       nodes[i].depth = 1 /\ nodes[i].type = "array" /\ ~nodes[i].hasChildren /\ nodes[i].isExpanded
  /\ \E i \in 1..Len(nodes) : nodes[i].depth = 1 /\ nodes[i].hasChildren /\ nodes[i].isExpanded
  /\ \E i \in 1..Len(nodes) :
       nodes[i].depth = 2 /\ nodes[i].type = "string" /\ ~nodes[i].isExpanded

RECURSIVE IsSubsequence(_, _)
\* v is obtained from ns by deleting elements (the elements of ns are distinct).
IsSubsequence(v, ns) ==
  IF v = <<>> THEN TRUE
  ELSE IF ns = <<>> THEN FALSE
  ELSE IF Head(v) = Head(ns) THEN IsSubsequence(Tail(v), Tail(ns))
  ELSE IsSubsequence(v, Tail(ns))

\* C11: getVisibleNodes(nodes) is a subsequence of nodes: every returned node
\* is a node of the list, no node is returned twice, and the returned nodes
\* keep the relative order they have in the list.
VisibleIsSubsequence ==
  LET visible == getVisibleNodes(nodes)
  IN /\ \A k \in 1..Len(visible) : \E i \in 1..Len(nodes) : visible[k] = nodes[i]
     /\ \A k, l \in 1..Len(visible) : k # l => visible[k].id # visible[l].id
     /\ \A k, l \in 1..Len(visible) :
          k < l => IndexOf(nodes, visible[k].id) < IndexOf(nodes, visible[l].id)
     /\ IsSubsequence(visible, nodes)

\* A hidden node lies between two visible nodes of the list.
VisibleIsSubsequenceWitness ==
  LET visible == getVisibleNodes(nodes)
  IN /\ op.name \in MutationOps
     /\ \E i, j, k \in 1..Len(nodes) :
          /\ i < j /\ j < k
          /\ nodes[i] \in Range(visible) /\ nodes[k] \in Range(visible)
          /\ nodes[j] \notin Range(visible)

\* C12: when toggleNode collapses a visible, expanded node n with children, the
\* visible list afterwards is the visible list before without the proper
\* descendants of n; n (now collapsed) and every node outside its subtree stay.
ToggleCollapseHidesSubtree ==
  (op.name = "toggleNode" /\ op.id \in Ids(prev)) =>
    LET n == prev[IndexOf(prev, op.id)]
    IN (n \in Range(getVisibleNodes(prev)) /\ n.hasChildren /\ n.isExpanded) =>
         LET keep(node) == n.id \notin AncestorIds(prev, IndexOf(prev, node.id))
             before == SelectSeq(getVisibleNodes(prev), keep)
             after == getVisibleNodes(nodes)
         IN /\ Len(after) = Len(before)
            /\ \A k \in 1..Len(before) :
                 after[k] = IF before[k].id = n.id
                            THEN [before[k] EXCEPT !.isExpanded = FALSE]
                            ELSE before[k]

\* A visible, expanded node below the root was collapsed while a grandchild of
\* it was visible: the grandchild is hidden now, the node itself is not.
ToggleCollapseWitness ==
  /\ op.name = "toggleNode" /\ op.id \in Ids(prev)
  /\ LET i == IndexOf(prev, op.id)
     IN /\ prev[i].depth = 1 /\ prev[i].hasChildren /\ prev[i].isExpanded
        /\ prev[i] \in Range(getVisibleNodes(prev))
        /\ nodes[i] \in Range(getVisibleNodes(nodes))
        /\ \E j \in 1..Len(prev) :
             /\ prev[j].depth = 3 /\ prev[i].id \in AncestorIds(prev, j)
             /\ prev[j] \in Range(getVisibleNodes(prev))
             /\ nodes[j] \notin Range(getVisibleNodes(nodes))

\* q occurs in s when case is ignored.
ContainsIgnoreCase(s, q) == includes(toLowerCase(s), toLowerCase(q))

\* C13: for a query q that is not blank, searchNodes returns exactly the nodes
\* in which q occurs, ignoring case, in the key, in the string value, in the
\* decimal string form of the number value or in the path; boolean and null
\* values are not matched by value; the result is the same for every setting
\* of the isExpanded flags.
SearchMatchesFields ==
  (op.name = "searchNodes" /\ trim(op.query) # <<>>) =>
    /\ \A i \in 1..Len(nodes) :
         (nodes[i].id \in Range(matches)) <=>
           \/ nodes[i].key # Undef /\ ContainsIgnoreCase(nodes[i].key, op.query)
           \/ nodes[i].type = "string" /\ ContainsIgnoreCase(nodes[i].value.str, op.query)
           \/ nodes[i].type = "number"
                /\ ContainsIgnoreCase(NumberToString(nodes[i].value.num), op.query)
           \/ ContainsIgnoreCase(nodes[i].path, op.query)
    /\ \A v \in [1..Len(nodes) -> BOOLEAN] : searchNodes(WithFlags(nodes, v), op.query) = matches

\* C14: for a non-empty query q, searchNodes returns the same ids for q, for
\* q.toUpperCase() and for q.toLowerCase(), number values included.
SearchCaseInsensitive ==
  (op.name = "searchNodes" /\ op.query # <<>>) =>
    /\ Range(searchNodes(nodes, toUpperCase(op.query))) = Range(matches)
    /\ Range(searchNodes(nodes, toLowerCase(op.query))) = Range(matches)

\* C15: searchNodes with an empty query or a query of whitespace only returns
\* no id.
BlankQueryNoMatches ==
  (op.name = "searchNodes" /\ \A i \in 1..Len(op.query) : op.query[i] \in {" ", "\t", "\n"}) =>
    matches = <<>>

\* A list of three nodes, in which the query r has matches, was searched with a
\* query of two spaces, and nothing matched.
BlankQueryWitness ==
  /\ op.name = "searchNodes" /\ op.query = <<" ", " ">>
  /\ Len(nodes) = 3
  /\ matches = <<>>
  /\ searchNodes(nodes, <<"r">>) # <<>>

\* The positions in ns of the children of ns[i], in list order.
ChildPositions(ns, i) == {j \in 1..Len(ns) : ns[j].parent = ns[i].id}

\* s = p \o rest for some rest in which q occurs.
ExtendsWith(s, p, q) ==
  /\ Len(s) > Len(p) /\ SubSeq(s, 1, Len(p)) = p
  /\ includes(SubSeq(s, Len(p) + 1, Len(s)), q)

\* C16: after a JSON build (main thread or worker) the elements of every array
\* have pairwise distinct paths, the path of the element at position k being the
\* array's path extended with k; so nodes with the same key under different
\* elements of one array have different paths.
ArrayElementPathsDistinct ==
  op.name \in {"parseJsonToTree", "workerParseJson"} =>
    \A i \in 1..Len(nodes) :
      nodes[i].type = "array" =>
        LET kids == ChildPositions(nodes, i)
        IN /\ \A j, k \in kids : j # k => nodes[j].path # nodes[k].path
           /\ \A j \in kids :
                ExtendsWith(nodes[j].path, nodes[i].path,
                            NatToString(Cardinality({k \in kids : k < j})))
           /\ \A j, k \in kids : j # k =>
                \A m \in ChildPositions(nodes, j), n \in ChildPositions(nodes, k) :
                  nodes[m].key = nodes[n].key => nodes[m].path # nodes[n].path

\* C17: after a build every object, array and XML element node has childCount
\* equal to the number of nodes whose parent it is, has hasChildren exactly when
\* childCount > 0, and has no descendants when it is empty.
ChildCountExact ==
  op.name \in BuildOps =>
    \A i \in 1..Len(nodes) :
      nodes[i].type \in {"object", "array"} =>
        /\ nodes[i].childCount = Cardinality(ChildPositions(nodes, i))
        /\ nodes[i].hasChildren <=> nodes[i].childCount > 0
        /\ nodes[i].childCount = 0 =>
             \A j \in 1..Len(nodes) : nodes[i].id \notin AncestorIds(nodes, j)

\* A build produced an empty container with childCount 0 next to a container
\* with two children, and the XML builder an element whose comment child is
\* not counted.
ChildCountWitness ==
  /\ op.name \in BuildOps
  /\ \/ /\ \E i \in 1..Len(nodes) :
             nodes[i].type \in {"object", "array"} /\ nodes[i].childCount = 0
                /\ ~nodes[i].hasChildren /\ nodes[i].depth = 1
          /\ nodes[1].childCount = 2 /\ Cardinality(ChildPositions(nodes, 1)) = 2
     \/ /\ op.name = "parseXmlToTree"
          /\ \E k \in 1..Len(input.doc.childNodes) : input.doc.childNodes[k] = XComment
          /\ nodes[1].childCount = 2 /\ Cardinality(ChildPositions(nodes, 1)) = 2

\* The node list the builder named by op returns for doc in a freshly loaded page.
FreshBuild(name, doc) ==
  CASE name = "parseJsonToTree" -> parseJsonToTree(doc)
    [] name = "workerParseJson" -> workerParseJson(doc)
    [] name = "parseXmlToTree" -> parseXmlToTree(doc)

\* C18: in every build, whatever was built before, the node at list position i
\* (0-based) has id node_i, so the ids are pairwise distinct, and the list is
\* equal field by field to the list a first build of the same document gives.
IdsRestart ==
  op.name \in BuildOps =>
    /\ \A i \in 1..Len(nodes) : nodes[i].id = i - 1
    /\ \A i, j \in 1..Len(nodes) : i # j => nodes[i].id # nodes[j].id
    /\ nodes = FreshBuild(op.name, input.doc)

\* A document of three nodes was built by the main-thread builder right after
\* another main-thread build of three nodes, which had left the counter at 3.
IdsRestartWitness ==
  /\ op.name = "parseJsonToTree"
  /\ Len(prev) = 3 /\ prev[1].type \in {"array", "object"}
  /\ \E i \in 1..Len(prev) : prev[i].index # -1
  /\ Len(nodes) = 3 /\ nodes[3].id = 2 /\ nodes # prev
  /\ nodeIdCounter = 3

RECURSIVE ValidJsonTexts(_)
RECURSIVE ElementTexts(_)

\* The JSON texts of at most n characters over TextChars, by the grammar:
\* value = number | "[" [value {"," value}] "]".
ValidJsonTexts(n) ==
  {[i \in 1..k |-> "1"] : k \in 1..n}
  \cup (IF n < 2 THEN {}
        ELSE {<<"[">> \o e \o <<"]">> : e \in ElementTexts(n - 2) \cup {<<>>}})

\* value {"," value} of at most n characters.
ElementTexts(n) ==
  IF n < 1 THEN {}
  ELSE ValidJsonTexts(n)
       \cup {t \in {v \o <<",">> \o r : v \in ValidJsonTexts(n - 2), r \in ElementTexts(n - 2)} :
               Len(t) <= n}

ValidJson(text) == text \in ValidJsonTexts(Len(text))

\* The messages the worker posted for the request at position n.
Answers(n) ==
  LET forN(m) == m.req = n
      ms == SelectSeq(outbox, forN)
  IN [i \in 1..Len(ms) |-> ms[i].msg]

\* C19: for a text that is not valid JSON, parseJsonToTree returns no nodes
\* and a defined, non-empty error message, and the worker answers PARSE_JSON
\* with PARSE_ERROR, never with PARSE_SUCCESS and never with a node list.
InvalidJsonRejected ==
  /\ (op.name = "parseJsonToTree" /\ ~ValidJson(input.text)) =>
       nodes = <<>> /\ error # Undef /\ error # <<>>
  /\ \A n \in 1..handled :
       (requests[n].type = "PARSE_JSON" /\ ~ValidJson(requests[n].data)) =>
         LET ms == Answers(n)
         IN /\ \E i \in 1..Len(ms) : ms[i].type = "PARSE_ERROR" /\ ms[i].error \notin {Undef, <<>>}
            /\ \A i \in 1..Len(ms) : ms[i].type # "PARSE_SUCCESS" /\ ms[i].nodes = NoNodes

\* The text [1 was refused on the main thread and by the worker.
InvalidJsonWitness ==
  /\ op.name = "parseJsonToTree" /\ input.text = <<"[", "1">>
  /\ nodes = <<>> /\ error = UnexpectedEnd
  /\ handled = 1 /\ requests[1] = Request("PARSE_JSON", <<"[", "1">>)
  /\ Len(outbox) = 2 /\ outbox[2].msg.type = "PARSE_ERROR"

\* C20: the worker answers every PARSE_JSON request with PARSE_PROGRESS
\* messages followed by exactly one PARSE_SUCCESS or PARSE_ERROR and nothing
\* after it, answers every EXPAND_TO_MATCHES request with exactly one message,
\* EXPAND_SUCCESS or EXPAND_ERROR, and posts the answers in the order the
\* requests arrived.
WorkerProtocol ==
  /\ \A n \in 1..handled :
       LET ms == Answers(n)
       IN /\ requests[n].type = "PARSE_JSON" =>
               /\ Len(ms) >= 1
               /\ ms[Len(ms)].type \in {"PARSE_SUCCESS", "PARSE_ERROR"}
               /\ \A i \in 1..(Len(ms) - 1) : ms[i].type = "PARSE_PROGRESS"
          /\ requests[n].type = "EXPAND_TO_MATCHES" =>
               Len(ms) = 1 /\ ms[1].type \in {"EXPAND_SUCCESS", "EXPAND_ERROR"}
  /\ \A i, j \in 1..Len(outbox) : i < j => outbox[i].req <= outbox[j].req
  /\ \A i \in 1..Len(outbox) : outbox[i].req \in 1..handled

\* A PARSE_JSON request answered with a timed progress report and PARSE_SUCCESS
\* was followed by an EXPAND_TO_MATCHES request answered with EXPAND_ERROR.
WorkerProtocolWitness ==
  /\ handled = 2
  /\ requests[1].type = "PARSE_JSON" /\ requests[2].type = "EXPAND_TO_MATCHES"
  /\ Len(Answers(1)) = 5 /\ Answers(1)[3].message = <<"N">>
  /\ Answers(1)[5].type = "PARSE_SUCCESS" /\ Len(Answers(1)[5].nodes) = 2
  /\ Answers(2) = <<Message("EXPAND_ERROR", NoNodes, TypeErrorMessage, Undef)>>

\* The last message posted for the request at position n (the terminal one).
Terminal(n) == Answers(n)[Len(Answers(n))]

\* C21: a well-formed request that follows a request answered with PARSE_ERROR
\* or EXPAND_ERROR succeeds with the answer of a fresh worker, and two equal
\* requests get the same terminal message wherever they stand in the sequence.
WorkerSurvivesFailure ==
  /\ \A n \in 2..handled :
       (Answers(n - 1) # <<>> /\ Terminal(n - 1).type \in {"PARSE_ERROR", "EXPAND_ERROR"}) =>
         /\ (requests[n].type = "PARSE_JSON" /\ ValidJson(requests[n].data)) =>
              Terminal(n) = Message("PARSE_SUCCESS",
                                    workerParseJson(JSONparse(requests[n].data).value),
                                    Undef, Undef)
         /\ (requests[n].type = "EXPAND_TO_MATCHES" /\ WellFormed(requests[n].data)) =>
              Answers(n) = <<Message("EXPAND_SUCCESS",
                                     workerExpandToMatches(requests[n].data.nodes,
                                                           requests[n].data.matchIds),
                                     Undef, Undef)>>
  /\ \A n, m \in 1..handled :
       (requests[n] = requests[m] /\ Answers(n) # <<>>) => Terminal(n) = Terminal(m)

\* The text ]1 was answered with PARSE_ERROR and the text [1] after it with
\* PARSE_SUCCESS and two nodes.
WorkerSurvivesWitness ==
  /\ handled = 2
  /\ requests[1] = Request("PARSE_JSON", <<"]", "1">>) /\ Terminal(1).type = "PARSE_ERROR"
  /\ requests[2] = Request("PARSE_JSON", <<"[", "1", "]">>)
  /\ Terminal(2).type = "PARSE_SUCCESS" /\ Len(Terminal(2).nodes) = 2

\* C24: after any sequence of saveToHistory calls the store holds at most one
\* entry per session id; a save whose session id has an entry keeps the number
\* of entries and that entry's id and gives it the new text, preview and
\* timestamp; a save without session id adds an entry with a new id.
OneEntryPerSession ==
  /\ [](\A i, j \in 1..Len(history.entries) :
          (i # j /\ history.entries[i].sessionId = history.entries[j].sessionId) =>
            history.entries[i].sessionId = NoId)
  /\ [][history' # history =>
          LET call == history'.lastCall
              old == history.entries
              new == history'.entries
          IN /\ (call.sessionId # NoId
                   /\ \E i \in 1..Len(old) : old[i].sessionId = call.sessionId) =>
                  /\ Len(new) = Len(old)
                  /\ \A i \in 1..Len(old) :
                       IF old[i].sessionId = call.sessionId
                       THEN /\ new[i].id = old[i].id
                            /\ new[i].content = call.content
                            /\ new[i].preview = substring0(trim(call.content), 100)
                            /\ new[i].timestamp = history'.now
                       ELSE new[i] = old[i]
             /\ call.sessionId = NoId =>
                  /\ Len(new) = Len(old) + 1
                  /\ SubSeq(new, 1, Len(old)) = old
                  /\ new[Len(new)].content = call.content
                  /\ new[Len(new)].sessionId = NoId
                  /\ \A i \in 1..Len(old) : old[i].id # new[Len(new)].id]_vars

\* The entry of session 1, saved as JSON, was saved again as XML at a later
\* time: it kept its id and its format and is the only entry of the session,
\* next to an entry without session.
OneEntryPerSessionWitness ==
  /\ Len(history.entries) = 2
  /\ history.entries[1].sessionId = 1 /\ history.entries[1].id = 1
  /\ history.entries[1].formatType = "json"
  /\ history.entries[2].sessionId = NoId
  /\ history.lastCall = [content |-> <<" ", "[", "1", "]">>, formatType |-> "xml", sessionId |-> 1]
  /\ history.entries[1].content = <<" ", "[", "1", "]">>
  /\ history.entries[1].preview = <<"[", "1", "]">>
  /\ history.entries[1].timestamp = 2

CloseTabActivates ==
  [][\A i \in 1..Len(app.tabs) :
       (/\ app'.lastOp.name = "closeTab"
        /\ app'.lastOp.id = app.tabs[i].id
        /\ Len(app.tabs) > 1) =>
         /\ (app.activeTabId = app.tabs[i].id /\ i > 1) => app'.activeTabId = app.tabs[i - 1].id
         /\ (app.activeTabId = app.tabs[i].id /\ i = 1) => app'.activeTabId = app.tabs[2].id
         /\ app.activeTabId # app.tabs[i].id => app'.activeTabId = app.activeTabId]_vars

\* Of three tabs the active middle one was closed and the first one is active.
CloseTabActivatesWitness ==
  /\ app.lastOp = LastOp("closeTab", 2, 1, TRUE)
  /\ Len(app.tabs) = 2 /\ app.tabs[1].id = 1 /\ app.tabs[2].id = 3
  /\ app.activeTabId = 1

\* C25: in every reachable state of the orchestration layer, whenever an error
\* message is set the node list is empty: no action sets an error while a node
\* list built earlier stays displayed.
ErrorClearsNodes == app.error # Undef => app.allNodes = <<>>

\* C26: when the input is empty or whitespace-only, handling it (by the
\* auto-format effect after an edit, by parseInput on a file's text, or by the
\* Format button) sends no request to the worker, sets no error message and
\* leaves no node list.
BlankInputShowsNothing ==
  (/\ app.lastOp.name \in {"setJsonInput", "readerOnload", "handleFormat"}
   /\ trim(app.jsonInput) = <<>>) =>
    /\ \A i \in 1..Len(app.inflight) :
         app.inflight[i].type = "PARSE_JSON" => trim(app.inflight[i].data) # <<>>
    /\ app.error = Undef
    /\ app.allNodes = <<>>

\* C22: when a PARSE_JSON request was issued while an earlier one was still in
\* flight, the PARSE_SUCCESS or PARSE_ERROR of the earlier request changes
\* neither the node list nor the error: only the result of the request issued
\* last is adopted.
StaleResultIgnored ==
  [][(app'.lastOp.name \in {"PARSE_SUCCESS", "PARSE_ERROR"} /\ app'.lastOp.flag) =>
       (app'.allNodes = app.allNodes /\ app'.error = app.error)]_vars

\* The parses ended in the last step that call for an entry in the history:
\* successful, of a text that is not blank and not the sample of its format.
NeedsSaving(p) ==
  /\ p.ok
  /\ trim(p.text) # <<>>
  /\ p.text # (IF p.formatType = "xml" THEN SAMPLE_XML ELSE SAMPLE_JSON)

\* C23: every successful parse of a text that is not blank and not the sample,
\* by the worker (JSON) or inline (XML), makes exactly one saveToHistory call
\* with that text, its format and the session id of the active tab; a failed
\* parse and a parse of the sample make none.
SavedOncePerParse ==
  LET due == SelectSeq(app.parsed, NeedsSaving)
  IN app.saved = [i \in 1..Len(due) |->
                    SaveCall(due[i].text, due[i].formatType, activeTab(app).sessionId)]

\* Nothing is pending: no request waits for the worker, no timer is armed and
\* no file is being read.  The state stays as it is until the user acts.
Quiescent ==
  /\ app.inflight = <<>>
  /\ app.debounceTimer = <<>>
  /\ ~app.expansionTimer.armed
  /\ app.scrollTimer = <<>>
  /\ ~app.mountParseRef
  /\ ~app.reader.pending

\* C27: isProcessing never stays set forever, the worker answering every
\* request it receives, also after a format switch, a tab switch or a clear
\* during a parse: when nothing is pending any more, isProcessing is cleared.
ProcessingEnds == Quiescent => ~app.isProcessing

\* C28: when the search text is not blank and matches nodes of the adopted
\* list, the tree ends up with every match in the visible list, also when the
\* list was adopted after the search text was entered: once nothing is pending
\* any more, every match is visible.
MatchesShown ==
  (/\ Quiescent
   /\ trim(app.searchQuery) # <<>>
   /\ searchNodes(app.allNodes, app.searchQuery) # <<>>) =>
    \A id \in Range(searchNodes(app.allNodes, app.searchQuery)) :
      id \in Ids(getVisibleNodes(app.allNodes))

\* C31: the setters keep the mirrored state and the active tab's record equal,
\* and after a tab switch has settled the mirrored content, node list, error,
\* format and session id are those stored in the newly active tab: in every
\* settled state the mirror equals the record of the active tab.
MirrorMatchesActiveTab ==
  /\ app.jsonInput = activeTab(app).content
  /\ app.allNodes = activeTab(app).nodes
  /\ app.error = activeTab(app).error
  /\ app.formatType = activeTab(app).formatType
  /\ app.currentSessionIdRef = activeTab(app).sessionId

\* C32: at most one input-change timer is pending; a change of the input text
\* cancels the timer that was pending, and after a change to a text that is
\* not blank one timer is pending, for the text now in the input area, so that
\* the parse it triggers is the only one for the burst and carries the latest
\* text.
OneDebouncedParse ==
  /\ [](/\ Len(app.debounceTimer) <= 1
        /\ \A i \in 1..Len(app.debounceTimer) : app.debounceTimer[i].text = app.jsonInput
        /\ (app.lastOp.name = "setJsonInput" /\ trim(app.jsonInput) # <<>>) =>
             Len(app.debounceTimer) = 1)
  /\ [][app'.lastOp.name = "setJsonInput" =>
          \A i \in 1..Len(app'.debounceTimer) : app'.debounceTimer[i].text = app'.jsonInput]_vars

\* C33: a pending search-expansion timer always belongs to the search text
\* that is current (a change of the search text, also to the empty text, has
\* cancelled the timer of the text before), and the EXPAND_TO_MATCHES request
\* sent when the timer fires carries the match set of the search text that is
\* current at that moment.
ExpansionForCurrentSearch ==
  /\ [](app.expansionTimer.armed =>
          /\ trim(app.searchQuery) # <<>>
          /\ app.expansionTimer.matchIds =
               searchNodes(app.expansionTimer.nodes, app.searchQuery))
  /\ [][(app.expansionTimer.armed /\ app'.lastOp.name = "expandToMatches"
           /\ Len(app'.inflight) = Len(app.inflight) + 1) =>
          LET request == app'.inflight[Len(app'.inflight)]
          IN /\ request.type = "EXPAND_TO_MATCHES"
             /\ request.data.matchIds = searchNodes(request.data.nodes, app.searchQuery)]_vars

\* C34: a step that leaves the search text as it is (a toggle, expand all,
\* collapse all, the adoption of EXPAND_SUCCESS or of a parse result) arms no
\* expansion timer, and the only request it can send is the one of the timer
\* that was armed and fires; a change of the search text sends nothing, and
\* the timer it arms, if any, is for the match set of the new text, which is
\* not empty.
NoExpansionFeedback ==
  [][/\ app'.searchQuery = app.searchQuery =>
          /\ app'.expansionTimer.armed => app'.expansionTimer = app.expansionTimer
          /\ Expands(app') <= Expands(app)
                               + (IF app.expansionTimer.armed /\ ~app'.expansionTimer.armed
                                  THEN 1 ELSE 0)
     /\ app'.searchQuery # app.searchQuery =>
          /\ Expands(app') <= Expands(app)
          /\ (app'.expansionTimer.armed /\ app'.expansionTimer # app.expansionTimer) =>
               /\ app'.expansionTimer.matchIds # <<>>
               /\ app'.expansionTimer.matchIds
                    = searchNodes(app'.expansionTimer.nodes, app'.searchQuery)]_vars

\* A row was folded while a search with matches is shown, and no expansion is
\* scheduled or requested.
NoExpansionFeedbackWitness ==
  /\ app.lastOp.name \in {"handleToggle", "handleExpandAll", "handleCollapseAll", "EXPAND_SUCCESS"}
  /\ trim(app.searchQuery) # <<>>
  /\ app.searchMatches # <<>>
  /\ ~app.expansionTimer.armed
  /\ Expands(app) = 0

\* C35: while an EXPAND_TO_MATCHES request is in flight no scrollToNode is
\* executed; when its EXPAND_SUCCESS arrives the pending target, the one
\* requested last, is handed to scrollToNode once (by the 50 ms timer) and the
\* pending target and the flag are cleared; EXPAND_ERROR drops the pending
\* target and clears the flag.
ScrollWaitsForExpansion ==
  /\ [](/\ Expands(app) > 0 => app.scrolled = <<>>
        /\ LET failed == onExpandError(app, <<"e">>)
           IN ~failed.isExpandingRef /\ failed.pendingScrollRef = NoId)
  /\ [][(Expands(app') < Expands(app) /\ app'.lastOp.name = "EXPAND_SUCCESS") =>
          /\ ~app'.isExpandingRef
          /\ app'.pendingScrollRef = NoId
          /\ app'.scrolled = <<>>
          /\ app'.scrollTimer = IF app.pendingScrollRef # NoId
                                THEN Append(app.scrollTimer, app.pendingScrollRef)
                                ELSE app.scrollTimer]_vars

\* C40: after saveToHistory(text, format, sessionId) the history entry of that
\* session id has the text as content and the format as formatType, also when
\* the entry was there before and had been saved with the other format.
SavedEntryHasFormat ==
  \A i \in 1..Len(history.entries) :
    (history.lastCall.sessionId # NoId
       /\ history.entries[i].sessionId = history.lastCall.sessionId) =>
      /\ history.entries[i].content = history.lastCall.content
      /\ history.entries[i].formatType = history.lastCall.formatType

\* C39: in every reachable state a currentMatchIndex that is not negative is
\* smaller than the number of ids in matchIds, so that the current match id
\* is defined.
CurrentMatchDefined ==
  app.currentMatchIndex >= 0 => app.currentMatchIndex < Len(matchIds(app))

\* C36: after a clear the node list stays empty as long as the input area is
\* empty (no parse is requested for an empty text), and the result of an
\* expansion requested before the list was emptied, by a clear or by a format
\* switch, is not adopted: EXPAND_SUCCESS never fills an empty node list.
EmptiedListStaysEmpty ==
  /\ [](app.jsonInput = <<>> => app.allNodes = <<>>)
  /\ [][(app.allNodes = <<>> /\ app'.lastOp.name = "EXPAND_SUCCESS"
           /\ Expands(app') < Expands(app)) =>
          app'.allNodes = <<>>]_vars

\* C37: the list adopted on EXPAND_SUCCESS is the node list of that moment
\* with the ancestors of the matches expanded, so that a toggle, expand all,
\* collapse all or a newer parse result adopted while the expansion was
\* scheduled or in flight is kept.
ExpansionKeepsCurrentList ==
  [][(/\ app.inflight # <<>>
      /\ Expands(app') < Expands(app)
      /\ app'.lastOp.name = "EXPAND_SUCCESS") =>
       app'.allNodes = workerExpandToMatches(app.allNodes, Head(app.inflight).data.matchIds)]_vars

\* The fields of a node that both builders set.
SharedFields ==
  {"id", "type", "key", "value", "depth", "isExpanded", "hasChildren", "childCount",
   "parent", "path"}

SameNode(a, b) == \A f \in SharedFields : a[f] = b[f]

\* C38: for every JSON text the worker answers with PARSE_SUCCESS, the posted
\* node list is field by field (id, type, key, value, depth, isExpanded,
\* hasChildren, childCount, parent, path) the list parseJsonToTree returns for
\* that text.
WorkerListIsMainThreadList ==
  \A n \in 1..handled :
    (requests[n].type = "PARSE_JSON" /\ Terminal(n).type = "PARSE_SUCCESS") =>
      LET posted == Terminal(n).nodes
          main == parseJsonToTreeText(nodeIdCounter, requests[n].data).nodes
      IN /\ Len(posted) = Len(main)
         /\ \A i \in 1..Len(posted) : SameNode(posted[i], main[i])

====
